---- MODULE Spec2Model ----
(***************************************************************************)
(* Model of content_replace: the rule matcher/transformer (config.Rule),   *)
(* the replacer Engine, the rule-file Watcher, the round-robin             *)
(* LoadBalancer and the Forwarder's header policy.                         *)
(*                                                                         *)
(* Text is modelled as a sequence of one-character strings, so that        *)
(* strings.HasPrefix, strings.ReplaceAll, json.Unmarshal and               *)
(* json.MarshalIndent are computed character by character.                 *)
(***************************************************************************)
EXTENDS Integers, Sequences, FiniteSets, TLC

\* ------------------------------------------------------------------------
\* State
\* ------------------------------------------------------------------------

\* one call of Engine.Process or Rule.Apply
VARIABLES
  inRules,     \* the rule list of the call
  inContent,   \* the content of the call
  inStopped,   \* whether the engine's context is cancelled during the call
  op,          \* "none", or the operation that ran: "Process" or "Apply"
  outContent,  \* the content returned
  outErr       \* whether an error was returned

ruleVars == << inRules, inContent, inStopped, op, outContent, outErr >>

\* the rule files, the Watcher and the Engine's rule list
VARIABLES
  files,       \* the rule files on disk: path -> file
  eRules,       \* Engine.rules
  wRules,      \* Watcher.rules
  events,      \* watcher.Events: the queue of [name, op] not yet handled
  produced,    \* number of file system events produced so far
  wStopped,    \* Watcher.Stop was called (ctx cancelled, fsnotify closed)
  timerArmed,  \* debounceTimer is running
  timerC,      \* values waiting in debounceTimer.C (0 or 1)
  task,        \* the goroutines spawned by handleEvent: id -> state
  fires,       \* number of times debounceTimer expired
  reloads,     \* number of reloadRules calls started
  loaded,      \* allRules of each loadRules call between its read and its
               \* assignment to w.rules
  lastLoad,    \* outcome of the latest load: "none", "ok" or "error"
  shared       \* Engine.rules and Watcher.rules are one slice (the same
               \* backing array)

watchVars == << files, eRules, wRules, events, produced, wStopped, timerArmed,
                timerC, task, fires, reloads, loaded, lastLoad, shared >>

\* the Engine's context and the Process calls in flight
VARIABLES
  eStopped,    \* Engine.Stop was called (e.ctx is done)
  proc,        \* the calls of Engine.Process: id -> call record
  readers,     \* the Process calls holding e.mutex.RLock
  toggle       \* the latest EnableRule/DisableRule call: [name, enabled, err]

engVars == << eStopped, proc, readers, toggle >>

\* the LoadBalancer and one request passing through the Forwarder
VARIABLES
  targets,       \* LoadBalancer.targets (one target: single-target mode)
  currentIndex,  \* LoadBalancer.currentIndex
  returned,      \* the targets returned by GetNext so far, in call order
  reqHeader,     \* req.Header of the inbound request: key -> values
  targetHeader,  \* targetReq.Header of the outbound request
  sentTo,        \* "none", or the base URL the request was sent to
  resp,          \* the upstream response and what CopyResponse made of it
  lbCall         \* the concurrent callers of GetNext: id -> [pc, target, done]

proxyVars == << targets, currentIndex, returned, reqHeader, targetHeader, sentTo,
               resp, lbCall >>

\* the Server and the requests passing through Handler.ServeHTTP
VARIABLES
  req,         \* the requests: id -> request record
  srv          \* "serving", "stopping" (engine stopped, still accepting) or
               \* "stopped" (Shutdown closed the listeners)

handlerVars == << req, srv >>

\* the configuration and the startup sequence of main
VARIABLES
  cfg,         \* cfg.Rules: [file, pathList, autoReload]
  boot         \* how far main got: [phase, loadErr]

bootVars == << cfg, boot >>

vars == << ruleVars, watchVars, engVars, proxyVars, handlerVars, bootVars >>

\* what the actions of one component leave alone
RuleFrame == UNCHANGED << watchVars, engVars, proxyVars, handlerVars, bootVars >>
WatchFrame == UNCHANGED << ruleVars, engVars, proxyVars, handlerVars, bootVars >>
EngineFrame ==
  UNCHANGED << ruleVars, files, events, produced, wStopped, timerArmed,
               timerC, task, fires, reloads, loaded, lastLoad, proxyVars,
               handlerVars,
               bootVars >>
ProxyFrame == UNCHANGED << ruleVars, watchVars, engVars, handlerVars, bootVars >>
HandlerFrame ==
  UNCHANGED << ruleVars, files, wRules, shared, events, produced, wStopped, timerArmed,
               timerC, task, fires, reloads, loaded, lastLoad, proc, readers,
               toggle,
               targets, reqHeader, targetHeader, sentTo, resp, lbCall, bootVars >>
BootFrame ==
  UNCHANGED << ruleVars, files, events, produced, wStopped, timerArmed, timerC,
               task, fires, reloads, loaded, engVars, proxyVars, handlerVars >>

\* ------------------------------------------------------------------------
\* Text helpers (Go package strings)
\* ------------------------------------------------------------------------

\* The characters of the modelled inputs, in byte order (used to sort map
\* keys the way encoding/json does).
Alphabet ==
  << "\n", " ", "\"", ",", "-", ".", "0", "1", "2", ":",
     "A", "C", "E", "K", "L", "P", "T", "U", "X",
     "[", "]",
     "a", "b", "c", "d", "e", "f", "g", "h", "i", "k", "l", "n", "o", "p",
     "r", "s", "t", "u", "v", "x", "y", "{", "}" >>

RECURSIVE OrdFrom(_, _)
OrdFrom(c, i) ==
  IF i > Len(Alphabet) THEN 0
  ELSE IF Alphabet[i] = c THEN i ELSE OrdFrom(c, i + 1)

Ord(c) == OrdFrom(c, 1)

\* s[a..b], empty when a > b
Sub(s, a, b) == IF a > b THEN << >> ELSE SubSeq(s, a, b)

\* strings.HasPrefix
HasPrefix(s, p) == Len(p) <= Len(s) /\ Sub(s, 1, Len(p)) = p

\* strings.HasSuffix
HasSuffix(s, p) == Len(p) <= Len(s) /\ Sub(s, Len(s) - Len(p) + 1, Len(s)) = p

\* p occurs in s at position i
OccursAt(s, p, i) == i + Len(p) - 1 <= Len(s) /\ Sub(s, i, i + Len(p) - 1) = p

\* strings.Contains
Contains(s, p) == \E i \in 1..(Len(s) + 1) : OccursAt(s, p, i)

\* strings.ReplaceAll(s, old, new) for a non-empty old: leftmost
\* non-overlapping occurrences, scanned once from left to right.
RECURSIVE ReplaceFrom(_, _, _, _)
ReplaceFrom(s, old, new, i) ==
  IF i > Len(s) THEN << >>
  ELSE IF OccursAt(s, old, i)
       THEN new \o ReplaceFrom(s, old, new, i + Len(old))
       ELSE << s[i] >> \o ReplaceFrom(s, old, new, i + 1)

\* a replacement of the leftmost occurrence only (strings.Replace with n = 1)
ReplaceFirst(s, old, new) ==
  IF ~Contains(s, old) THEN s
  ELSE LET i == CHOOSE k \in 1..Len(s) :
                  OccursAt(s, old, k) /\ \A j \in 1..(k - 1) : ~OccursAt(s, old, j)
       IN Sub(s, 1, i - 1) \o new \o Sub(s, i + Len(old), Len(s))

ReplaceAll(s, old, new) == ReplaceFrom(s, old, new, 1)

\* ------------------------------------------------------------------------
\* Regular expressions (Go package regexp), for the patterns of the model:
\* a pattern is a sequence of literal characters and ".", where "." matches
\* any character except newline. A pattern holding an unclosed "[" does not
\* compile.
\* ------------------------------------------------------------------------

RegexCompiles(p) == \A i \in 1..Len(p) : p[i] # "["

RegexAtomMatches(a, c) == IF a = "." THEN c # "\n" ELSE a = c

RegexMatchAt(s, p, i) ==
  /\ i + Len(p) - 1 <= Len(s)
  /\ \A j \in 1..Len(p) : RegexAtomMatches(p[j], s[i + j - 1])

\* regexp.MatchString: unanchored search; a compile error gives false
RegexMatchString(p, s) ==
  RegexCompiles(p) /\ \E i \in 1..(Len(s) + 1) : RegexMatchAt(s, p, i)

\* Regexp.ReplaceAllString with a replacement free of "$"
RECURSIVE RegexReplaceFrom(_, _, _, _)
RegexReplaceFrom(s, p, new, i) ==
  IF i > Len(s) THEN << >>
  ELSE IF RegexMatchAt(s, p, i)
       THEN new \o RegexReplaceFrom(s, p, new, i + Len(p))
       ELSE << s[i] >> \o RegexReplaceFrom(s, p, new, i + 1)

RegexReplaceAllString(s, p, new) == RegexReplaceFrom(s, p, new, 1)

\* ------------------------------------------------------------------------
\* JSON values (encoding/json decoding into interface{})
\*   k: "null" (Go nil), "bool", "num", "str", "obj" (map), "arr" (slice),
\*      "nilarr" (a nil []interface{} slice)
\*   s: the text of a bool, number or string
\*   n: the keys of an object, sorted, without duplicates
\*   e: the member values of an object (aligned with n) or the elements of
\*      an array
\* ------------------------------------------------------------------------

JNull == [k |-> "null", s |-> << >>, n |-> << >>, e |-> << >>]
JBool(s) == [k |-> "bool", s |-> s, n |-> << >>, e |-> << >>]
JNum(s) == [k |-> "num", s |-> s, n |-> << >>, e |-> << >>]
JStr(s) == [k |-> "str", s |-> s, n |-> << >>, e |-> << >>]
JObj(n, e) == [k |-> "obj", s |-> << >>, n |-> n, e |-> e]
JArr(e) == [k |-> "arr", s |-> << >>, n |-> << >>, e |-> e]
JNilArr == [k |-> "nilarr", s |-> << >>, n |-> << >>, e |-> << >>]

\* byte-wise string order, as sort.Strings orders map keys
RECURSIVE StrLess(_, _)
StrLess(a, b) ==
  IF b = << >> THEN FALSE
  ELSE IF a = << >> THEN TRUE
  ELSE IF Ord(a[1]) # Ord(b[1]) THEN Ord(a[1]) < Ord(b[1])
  ELSE StrLess(Tail(a), Tail(b))

\* m[key] = val on a map: a repeated key keeps the later value
RECURSIVE MapPutFrom(_, _, _, _)
MapPutFrom(o, key, val, i) ==
  IF i > Len(o.n) THEN JObj(Append(o.n, key), Append(o.e, val))
  ELSE IF o.n[i] = key THEN JObj(o.n, [o.e EXCEPT ![i] = val])
  ELSE IF StrLess(key, o.n[i])
       THEN JObj(Sub(o.n, 1, i - 1) \o << key >> \o Sub(o.n, i, Len(o.n)),
                 Sub(o.e, 1, i - 1) \o << val >> \o Sub(o.e, i, Len(o.e)))
  ELSE MapPutFrom(o, key, val, i + 1)

MapPut(o, key, val) == MapPutFrom(o, key, val, 1)

IsWs(c) == c = " " \/ c = "\n"
IsDigit(c) == c \in {"0", "1", "2"}

RECURSIVE SkipWs(_, _)
SkipWs(s, i) == IF i <= Len(s) /\ IsWs(s[i]) THEN SkipWs(s, i + 1) ELSE i

\* index of the quote closing a string whose text starts at i; 0 when the
\* string is unterminated or holds a control character
RECURSIVE ScanString(_, _)
ScanString(s, i) ==
  IF i > Len(s) THEN 0
  ELSE IF s[i] = "\"" THEN i
  ELSE IF s[i] = "\n" THEN 0
  ELSE ScanString(s, i + 1)

RECURSIVE ScanDigits(_, _)
ScanDigits(s, i) == IF i <= Len(s) /\ IsDigit(s[i]) THEN ScanDigits(s, i + 1) ELSE i

ParseFail == [ok |-> FALSE, v |-> JNull, p |-> 0]
ParseOk(v, p) == [ok |-> TRUE, v |-> v, p |-> p]

ParseString(s, i) ==
  LET q == ScanString(s, i + 1)
  IN IF q = 0 THEN ParseFail ELSE ParseOk(JStr(Sub(s, i + 1, q - 1)), q + 1)

\* an unsigned integer: "0", or digits not starting with "0"
ParseNumber(s, i) ==
  LET q == ScanDigits(s, i)
  IN IF s[i] = "0" THEN ParseOk(JNum(<< "0" >>), i + 1)
     ELSE ParseOk(JNum(Sub(s, i, q - 1)), q)

ParseLiteral(s, i) ==
  IF OccursAt(s, << "t", "r", "u", "e" >>, i)
    THEN ParseOk(JBool(<< "t", "r", "u", "e" >>), i + 4)
  ELSE IF OccursAt(s, << "f", "a", "l", "s", "e" >>, i)
    THEN ParseOk(JBool(<< "f", "a", "l", "s", "e" >>), i + 5)
  ELSE IF OccursAt(s, << "n", "u", "l", "l" >>, i)
    THEN ParseOk(JNull, i + 4)
  ELSE ParseFail

RECURSIVE ParseValue(_, _)
RECURSIVE ParseMembers(_, _, _)
RECURSIVE ParseElements(_, _, _)

\* the value starting at s[i]
ParseValue(s, i) ==
  IF i > Len(s) THEN ParseFail
  ELSE IF s[i] = "{" THEN
    LET j == SkipWs(s, i + 1)
    IN IF j <= Len(s) /\ s[j] = "}" THEN ParseOk(JObj(<< >>, << >>), j + 1)
       ELSE ParseMembers(s, j, JObj(<< >>, << >>))
  ELSE IF s[i] = "[" THEN
    LET j == SkipWs(s, i + 1)
    IN IF j <= Len(s) /\ s[j] = "]" THEN ParseOk(JArr(<< >>), j + 1)
       ELSE ParseElements(s, j, << >>)
  ELSE IF s[i] = "\"" THEN ParseString(s, i)
  ELSE IF IsDigit(s[i]) THEN ParseNumber(s, i)
  ELSE ParseLiteral(s, i)

\* members of an object from s[i] on (a key is expected at i), added to o
ParseMembers(s, i, o) ==
  IF i > Len(s) \/ s[i] # "\"" THEN ParseFail
  ELSE LET key == ParseString(s, i)
       IN IF ~key.ok THEN ParseFail
          ELSE LET c == SkipWs(s, key.p)
               IN IF c > Len(s) \/ s[c] # ":" THEN ParseFail
                  ELSE LET val == ParseValue(s, SkipWs(s, c + 1))
                       IN IF ~val.ok THEN ParseFail
                          ELSE LET d == SkipWs(s, val.p)
                                   o2 == MapPut(o, key.v.s, val.v)
                               IN IF d > Len(s) THEN ParseFail
                                  ELSE IF s[d] = "}" THEN ParseOk(o2, d + 1)
                                  ELSE IF s[d] = ","
                                    THEN ParseMembers(s, SkipWs(s, d + 1), o2)
                                  ELSE ParseFail

\* elements of an array from s[i] on (a value is expected at i)
ParseElements(s, i, acc) ==
  LET val == ParseValue(s, i)
  IN IF ~val.ok THEN ParseFail
     ELSE LET d == SkipWs(s, val.p)
              acc2 == Append(acc, val.v)
          IN IF d > Len(s) THEN ParseFail
             ELSE IF s[d] = "]" THEN ParseOk(JArr(acc2), d + 1)
             ELSE IF s[d] = "," THEN ParseElements(s, SkipWs(s, d + 1), acc2)
             ELSE ParseFail

\* json.Unmarshal([]byte(content), &data): one value, surrounded by optional
\* white space, and nothing else
Unmarshal(s) ==
  LET r == ParseValue(s, SkipWs(s, 1))
  IN IF r.ok /\ SkipWs(s, r.p) = Len(s) + 1 THEN r ELSE ParseFail

RECURSIVE Indent(_)
Indent(d) == IF d = 0 THEN << >> ELSE << " ", " " >> \o Indent(d - 1)

RECURSIVE MarshalAt(_, _)
RECURSIVE MarshalItems(_, _, _)

\* the items i.. of an object or array, each on its own line at depth d
MarshalItems(v, d, i) ==
  LET item == IF v.k = "obj"
              THEN << "\"" >> \o v.n[i] \o << "\"", ":", " " >> \o MarshalAt(v.e[i], d)
              ELSE MarshalAt(v.e[i], d)
  IN << "\n" >> \o Indent(d) \o item \o
     (IF i < Len(v.e) THEN << "," >> \o MarshalItems(v, d, i + 1) ELSE << >>)

MarshalAt(v, d) ==
  IF v.k = "null" \/ v.k = "nilarr" THEN << "n", "u", "l", "l" >>
  ELSE IF v.k = "bool" \/ v.k = "num" THEN v.s
  ELSE IF v.k = "str" THEN << "\"" >> \o v.s \o << "\"" >>
  ELSE IF v.k = "obj" THEN
    IF v.e = << >> THEN << "{", "}" >>
    ELSE << "{" >> \o MarshalItems(v, d + 1, 1) \o << "\n" >> \o Indent(d) \o << "}" >>
  ELSE
    IF v.e = << >> THEN << "[", "]" >>
    ELSE << "[" >> \o MarshalItems(v, d + 1, 1) \o << "\n" >> \o Indent(d) \o << "]" >>

\* json.MarshalIndent(v, "", "  ")
MarshalIndent(v) == MarshalAt(v, 0)

\* ------------------------------------------------------------------------
\* config.Rule: matching and transformation
\*   a rule is [name, enabled, mode, pattern, action, value]
\* ------------------------------------------------------------------------

Rule(name, enabled, mode, pattern, action, value) ==
  [name |-> name, enabled |-> enabled, mode |-> mode, pattern |-> pattern,
   action |-> action, value |-> value]

\* Rule.matchString
matchString(r, s) ==
  IF r.mode = "contains" THEN Contains(s, r.pattern)
  ELSE IF r.mode = "prefix" THEN HasPrefix(s, r.pattern)
  ELSE IF r.mode = "suffix" THEN HasSuffix(s, r.pattern)
  ELSE IF r.mode = "regex" THEN RegexMatchString(r.pattern, s)
  ELSE FALSE

\* Rule.IsEnabled
IsEnabled(r) == r.enabled

\* Rule.Match
Match(r, content) == IF ~r.enabled THEN FALSE ELSE matchString(r, content)

\* a deleteContent whose contains case removes the leftmost occurrence only
deleteContentOnce(r, content) ==
  IF r.mode = "prefix" THEN
    IF HasPrefix(content, r.pattern)
    THEN Sub(content, Len(r.pattern) + 1, Len(content)) ELSE content
  ELSE IF r.mode = "suffix" THEN
    IF HasSuffix(content, r.pattern)
    THEN Sub(content, 1, Len(content) - Len(r.pattern)) ELSE content
  ELSE IF r.mode = "contains" THEN ReplaceFirst(content, r.pattern, << >>)
  ELSE IF r.mode = "regex" THEN RegexReplaceAllString(content, r.pattern, << >>)
  ELSE content

\* Rule.deleteContent
deleteContent(r, content) ==
  IF r.mode = "prefix" THEN
    IF HasPrefix(content, r.pattern)
    THEN Sub(content, Len(r.pattern) + 1, Len(content)) ELSE content
  ELSE IF r.mode = "suffix" THEN
    IF HasSuffix(content, r.pattern)
    THEN Sub(content, 1, Len(content) - Len(r.pattern)) ELSE content
  ELSE IF r.mode = "contains" THEN ReplaceAll(content, r.pattern, << >>)
  ELSE IF r.mode = "regex" THEN RegexReplaceAllString(content, r.pattern, << >>)
  ELSE content

\* a replaceContent that replaces every occurrence once the boundary matches
replaceContentEverywhere(r, content) ==
  IF r.mode \in {"prefix", "suffix", "contains"}
  THEN ReplaceAll(content, r.pattern, r.value)
  ELSE IF r.mode = "regex" THEN RegexReplaceAllString(content, r.pattern, r.value)
  ELSE content

\* Rule.replaceContent
replaceContent(r, content) ==
  IF r.mode = "prefix" THEN
    IF HasPrefix(content, r.pattern)
    THEN r.value \o Sub(content, Len(r.pattern) + 1, Len(content)) ELSE content
  ELSE IF r.mode = "suffix" THEN
    IF HasSuffix(content, r.pattern)
    THEN Sub(content, 1, Len(content) - Len(r.pattern)) \o r.value ELSE content
  ELSE IF r.mode = "contains" THEN ReplaceAll(content, r.pattern, r.value)
  ELSE IF r.mode = "regex" THEN RegexReplaceAllString(content, r.pattern, r.value)
  ELSE content

RECURSIVE recursiveDelete(_, _)
RECURSIVE keepMembers(_, _, _)
RECURSIVE keepItems(_, _, _)

\* keepMembers that keeps the key of a deleted child, with a nil value
keepMembersKeepKey(r, node, i) ==
  IF i > Len(node.e) THEN JObj(<< >>, << >>)
  ELSE LET child == recursiveDelete(r, node.e[i])
           rest == keepMembers(r, node, i + 1)
       IN JObj(<< node.n[i] >> \o rest.n, << child.v >> \o rest.e)

\* the second loop of the map case: the members i.. whose value does not
\* signal deletion, rebuilt
keepMembers(r, node, i) ==
  IF i > Len(node.e) THEN JObj(<< >>, << >>)
  ELSE LET child == recursiveDelete(r, node.e[i])
           rest == keepMembers(r, node, i + 1)
       IN IF child.del THEN rest
          ELSE JObj(<< node.n[i] >> \o rest.n, << child.v >> \o rest.e)

\* the loop of the slice case: the items i.. that do not signal deletion
keepItems(r, node, i) ==
  IF i > Len(node.e) THEN << >>
  ELSE LET child == recursiveDelete(r, node.e[i])
           rest == keepItems(r, node, i + 1)
       IN IF child.del THEN rest ELSE << child.v >> \o rest

\* Rule.recursiveDelete: (modified node, delete the node itself)
recursiveDelete(r, node) ==
  IF node.k = "obj" THEN
    IF \E i \in 1..Len(node.e) : node.e[i].k = "str" /\ matchString(r, node.e[i].s)
    THEN [v |-> JNull, del |-> TRUE]
    ELSE [v |-> keepMembers(r, node, 1), del |-> FALSE]
  ELSE IF node.k = "arr" \/ node.k = "nilarr" THEN
    \* var modifiedSlice []interface{} stays nil until the first append
    LET kept == keepItems(r, node, 1)
    IN [v |-> IF kept = << >> THEN JNilArr ELSE JArr(kept), del |-> FALSE]
  ELSE [v |-> node, del |-> FALSE]

\* deleteJsonField that ignores the error of json.Unmarshal and goes on
\* with the nil data
deleteJsonFieldIgnoreErr(r, content) ==
  IF ~(HasPrefix(content, << "{" >>) /\ HasSuffix(content, << "}" >>))
     /\ ~(HasPrefix(content, << "[" >>) /\ HasSuffix(content, << "]" >>))
  THEN content
  ELSE MarshalIndent(recursiveDelete(r, Unmarshal(content).v).v)

\* Rule.deleteJsonField
deleteJsonField(r, content) ==
  IF ~(HasPrefix(content, << "{" >>) /\ HasSuffix(content, << "}" >>))
     /\ ~(HasPrefix(content, << "[" >>) /\ HasSuffix(content, << "]" >>))
  THEN content
  ELSE LET data == Unmarshal(content)
       IN IF ~data.ok THEN content
          ELSE MarshalIndent(recursiveDelete(r, data.v).v)

\* an Apply that asks Match first for every action
ApplyMatchFirst(r, content) ==
  IF ~Match(r, content) THEN content
  ELSE IF r.action = "delete" THEN deleteContent(r, content)
  ELSE IF r.action = "replace" THEN replaceContent(r, content)
  ELSE IF r.action = "delete_json_field" THEN deleteJsonField(r, content)
  ELSE content

\* Rule.Apply
Apply(r, content) ==
  IF r.action # "delete_json_field" /\ ~Match(r, content) THEN content
  ELSE IF r.action = "delete" THEN deleteContent(r, content)
  ELSE IF r.action = "replace" THEN replaceContent(r, content)
  ELSE IF r.action = "delete_json_field" THEN deleteJsonField(r, content)
  ELSE content

\* compact JSON text of a value (how the inputs of the model are written)
RECURSIVE Compact(_)
RECURSIVE CompactItems(_, _)
CompactItems(v, i) ==
  IF i > Len(v.e) THEN << >>
  ELSE (IF v.k = "obj" THEN << "\"" >> \o v.n[i] \o << "\"", ":" >> ELSE << >>)
       \o Compact(v.e[i])
       \o (IF i < Len(v.e) THEN << "," >> ELSE << >>)
       \o CompactItems(v, i + 1)

Compact(v) ==
  IF v.k = "null" THEN << "n", "u", "l", "l" >>
  ELSE IF v.k = "bool" \/ v.k = "num" THEN v.s
  ELSE IF v.k = "str" THEN << "\"" >> \o v.s \o << "\"" >>
  ELSE IF v.k = "obj" THEN << "{" >> \o CompactItems(v, 1) \o << "}" >>
  ELSE << "[" >> \o CompactItems(v, 1) \o << "]" >>

\* ------------------------------------------------------------------------
\* replacer.Engine.Process, as one call
\* ------------------------------------------------------------------------

\* one iteration of the loop of Engine.Process for an enabled rule, up to
\* the context check: Match, then Apply when it matched
ProcessRule(rule, content) ==
  IF Match(rule, content) THEN Apply(rule, content) ELSE content

\* ProcessLoop with every rule applied directly: no skip of disabled rules
\* and no Match before Apply
RECURSIVE ProcessLoopApplyAll(_, _, _, _)
ProcessLoopApplyAll(rules, i, content, cancelled) ==
  IF i > Len(rules) THEN [content |-> content, err |-> FALSE]
  ELSE IF cancelled THEN [content |-> << >>, err |-> TRUE]
  ELSE ProcessLoopApplyAll(rules, i + 1, Apply(rules[i], content), cancelled)

\* the loop of Engine.Process from rule i on; cancelled: e.ctx is done.
\* A disabled rule is skipped by continue, before the context check.
RECURSIVE ProcessLoop(_, _, _, _)
ProcessLoop(rules, i, content, cancelled) ==
  IF i > Len(rules) THEN [content |-> content, err |-> FALSE]
  ELSE IF ~IsEnabled(rules[i]) THEN ProcessLoop(rules, i + 1, content, cancelled)
  ELSE IF cancelled THEN [content |-> << >>, err |-> TRUE]
  ELSE ProcessLoop(rules, i + 1, ProcessRule(rules[i], content), cancelled)

\* a Process that looks at the context before anything else
ProcessCtxFirst(rules, content, cancelled) ==
  IF cancelled THEN [content |-> << >>, err |-> TRUE]
  ELSE ProcessLoop(rules, 1, content, cancelled)

\* Engine.Process on a snapshot of the rule list
Process(rules, content, cancelled) ==
  IF Len(rules) = 0 THEN [content |-> content, err |-> FALSE]
  ELSE ProcessLoop(rules, 1, content, cancelled)

\* ------------------------------------------------------------------------
\* Inputs of the transformation model
\* ------------------------------------------------------------------------

\* longest rule list handed to Process
MaxRules == 2

PatS == << "s" >>
PatRegex == << "s", "." >>
ValB == << "b" >>

PatternOf(mode) == IF mode = "regex" THEN PatRegex ELSE PatS

Modes == {"prefix", "suffix", "contains", "regex"}
Actions == {"replace", "delete", "delete_json_field"}

\* the rules of the model: every mode and action, enabled or not
RulePool ==
  { Rule("r", en, m, PatternOf(m), a, IF a = "replace" THEN ValB ELSE << >>) :
      en \in BOOLEAN, m \in Modes, a \in Actions }

RuleLists == UNION { [1..n -> RulePool] : n \in 0..MaxRules }

SS == JStr(<< "s", "s" >>)
KA == << "a" >>
KB == << "b" >>
KK == << "k" >>
KX == << "x" >>
KY == << "y" >>

\* JSON documents: the two examples of the specification and their variants
JsonPool ==
  { JObj(<< KA, KB >>, << JObj(<< KX, KY >>, << SS, JNum(<< "1" >>) >>), JNum(<< "2" >>) >>),
    JArr(<< JObj(<< KK >>, << SS >>), JObj(<< KK >>, << JStr(<< "a" >>) >>) >>),
    JArr(<< JObj(<< KK >>, << SS >>) >>),
    JArr(<< >>),
    JObj(<< >>, << >>),
    JObj(<< KX >>, << SS >>),
    JObj(<< KA >>, << JNum(<< "1" >>) >>),
    JObj(<< << "s", "s" >> >>, << JNum(<< "1" >>) >>),
    JObj(<< KA, KB >>, << JArr(<< JObj(<< KK >>, << SS >>) >>), JArr(<< >>) >>),
    JObj(<< KA, KB >>, << JObj(<< KB >>, << JObj(<< KX >>, << SS >>) >>), JStr(<< "a" >>) >>),
    JArr(<< JArr(<< JObj(<< KK >>, << SS >>) >>), SS, JNum(<< "1" >>),
            JObj(<< KA >>, << JBool(<< "t", "r", "u", "e" >>) >>) >>),
    JArr(<< JNum(<< "1" >>), JNull >>) }

\* text that is no JSON object or array: plain text, JSON scalars, bracketed
\* text that does not parse, a document followed by white space
TextPool ==
  { << >>,
    << "a" >>,
    << "s", "s" >>,
    << "a", "s", "b" >>,
    << "s", "a", "s", "s", "a" >>,
    << "a", "s", "\n", "s", "s" >>,
    << "\"", "s", "s", "\"" >>,
    << "1", "2" >>,
    << "{", "s", "s", "}" >>,
    << "[", "1", ",", "]" >>,
    << "[", "s", "s", "]" >>,
    << "{", "\"", "x", "\"", ":", "\"", "s", "s", "\"", "}", "}" >>,
    << "{", "\"", "x", "\"", ":", "\"", "s", "s", "\"" >>,
    << "[", "0", "1", "]" >>,
    << "[", "1", " ", "2", "]" >>,
    << "{", "\"", "x", "\"", " ", "\"", "s", "s", "\"", "}" >> }

\* JSON documents with white space inside or around them
SpacedPool ==
  { << " " >> \o Compact(JObj(<< KX >>, << SS >>)),
    Compact(JArr(<< JObj(<< KK >>, << SS >>) >>)) \o << "\n" >>,
    << "{", " ", "\"", "a", "\"", " ", ":", " ", "{", "\"", "x", "\"", ":", "\"", "s", "s", "\"", "}", " ", "}" >>,
    << "[", " ", "]" >> }

Contents == { Compact(v) : v \in JsonPool } \cup TextPool \cup SpacedPool

\* contains+replace rules with patterns of one and two characters, and values
\* that overlap them or not
ReplaceRules ==
  { Rule("r", TRUE, "contains", pat, "replace", val) :
      pat \in { << "s" >>, << "a", "s" >>, << "s", "s" >> },
      val \in { << "b" >>, << "a" >>, << "s" >>, << "b", "a" >>, << "s", "b" >> } }

\* prefix, suffix and contains rules that delete or replace a pattern of two
\* characters
TextRules ==
  { Rule("r", TRUE, m, pat, a, IF a = "replace" THEN ValB ELSE << >>) :
      m \in {"prefix", "suffix", "contains"},
      pat \in { << "a", "s" >>, << "s", "s" >> },
      a \in {"delete", "replace"} }

\* the texts over a and s of up to MaxText characters
MaxText == 4

ReplaceTexts == UNION { [1..n -> {"a", "s"}] : n \in 0..MaxText }

\* Engine.Process(inContent) on an engine holding inRules
CallProcess ==
  /\ op = "none"
  /\ LET r == Process(inRules, inContent, inStopped)
     IN /\ outContent' = r.content
        /\ outErr' = r.err
  /\ op' = "Process"
  /\ UNCHANGED << inRules, inContent, inStopped >>
  /\ RuleFrame

\* inRules[1].Apply(inContent)
CallApply ==
  /\ op = "none"
  /\ Len(inRules) = 1
  /\ outContent' = Apply(inRules[1], inContent)
  /\ outErr' = FALSE
  /\ op' = "Apply"
  /\ UNCHANGED << inRules, inContent, inStopped >>
  /\ RuleFrame

\* inRules[1].Apply on the result of inRules[1].Apply(inContent)
CallApplyAgain ==
  /\ op = "Apply"
  /\ outContent' = Apply(inRules[1], outContent)
  /\ op' = "ApplyTwice"
  /\ UNCHANGED << inRules, inContent, inStopped, outErr >>
  /\ RuleFrame

RuleNext == CallProcess \/ CallApply \/ CallApplyAgain

\* ------------------------------------------------------------------------
\* Properties of the transformation (checked under SpecRule)
\* ------------------------------------------------------------------------

RECURSIVE ApplyChain(_, _, _)
ApplyChain(rules, i, content) ==
  IF i > Len(rules) THEN content
  ELSE ApplyChain(rules, i + 1, Apply(rules[i], content))

\* C1: Process on the list R1..Rn returns Apply(Rn, ... Apply(R1, content)),
\* whatever the actions and match modes of the rules (stated here for lists
\* of enabled rules and an engine that is not stopped).
C1_ProcessIsApplyChain ==
  (op = "Process" /\ ~inStopped /\ \A i \in 1..Len(inRules) : inRules[i].enabled) =>
    (~outErr /\ outContent = ApplyChain(inRules, 1, inContent))

RemoveAt(s, i) == Sub(s, 1, i - 1) \o Sub(s, i + 1, Len(s))

\* C9: a rule with enabled = false has no effect on Process: the result is
\* the result of Process on the list without that rule.
C9_DisabledRuleIsNoOp ==
  op = "Process" =>
    \A i \in 1..Len(inRules) :
      ~inRules[i].enabled =>
        [content |-> outContent, err |-> outErr]
          = Process(RemoveAt(inRules, i), inContent, inStopped)

\* a Process call on a list holding a disabled delete_json_field rule that
\* would change the content if applied, next to an enabled rule that did
C9_Witness ==
  /\ op = "Process"
  /\ Len(inRules) = 2
  /\ ~inStopped
  /\ \E i \in 1..2 :
       /\ ~inRules[i].enabled
       /\ inRules[i].action = "delete_json_field"
       /\ Apply(inRules[i], inContent) # inContent
       /\ inRules[3 - i].enabled
  /\ outContent # inContent

\* node is an object with a direct string member that matches the rule
Doomed(r, node) ==
  /\ node.k = "obj"
  /\ \E i \in 1..Len(node.e) : node.e[i].k = "str" /\ matchString(r, node.e[i].s)

\* the indices of the members or elements of node that are not doomed
Survivors(r, node) ==
  LET Keep(i) == ~Doomed(r, node.e[i])
  IN SelectSeq([i \in 1..Len(node.e) |-> i], Keep)

\* out is node with every doomed object below it removed from its container
\* and everything else kept. An array without survivors may be rendered as
\* null (C8 is about that rendering).
RECURSIVE Pruned(_, _, _)
Pruned(r, node, out) ==
  LET idx == Survivors(r, node)
  IN IF node.k = "obj" THEN
       /\ out.k = "obj"
       /\ out.n = [j \in 1..Len(idx) |-> node.n[idx[j]]]
       /\ Len(out.e) = Len(idx)
       /\ \A j \in 1..Len(idx) : Pruned(r, node.e[idx[j]], out.e[j])
     ELSE IF node.k = "arr" THEN
       IF out.k = "arr"
       THEN /\ Len(out.e) = Len(idx)
            /\ \A j \in 1..Len(idx) : Pruned(r, node.e[idx[j]], out.e[j])
       ELSE out.k = "null" /\ idx = << >>
     ELSE out = node

\* content is the text of a JSON object or array with nothing around it
IsJsonDocument(content) ==
  LET u == Unmarshal(content)
  IN /\ u.ok
     /\ u.v.k \in {"obj", "arr"}
     /\ ~IsWs(content[1])
     /\ ~IsWs(content[Len(content)])

AppliedJsonRule ==
  op = "Apply" /\ inRules[1].action = "delete_json_field"

C8_ArraySurvives ==
  (AppliedJsonRule /\ inRules[1].enabled /\ IsJsonDocument(inContent)
     /\ Unmarshal(inContent).v.k = "arr") =>
    LET out == Unmarshal(outContent)
    IN /\ out.ok
       /\ out.v.k = "arr"
       /\ Pruned(inRules[1], Unmarshal(inContent).v, out.v)

\* C10: delete_json_field on content that is no JSON object or array returns
\* the content unchanged, without error.
C10_NonJsonUnchanged ==
  (AppliedJsonRule
     /\ (~Unmarshal(inContent).ok \/ Unmarshal(inContent).v.k \notin {"obj", "arr"})) =>
    (outContent = inContent /\ ~outErr)

\* bracketed text that does not parse went through deleteJsonField
C10_Witness ==
  /\ AppliedJsonRule
  /\ inContent = << "[", "1", ",", "]" >>
  /\ outContent = inContent

\* C21: Rule.Apply with delete_json_field does not ask Match about the
\* content as a whole: when Match(rule, content) is false (the pattern is no
\* prefix or suffix of the document, or the rule is disabled) the document is
\* still walked and every object with a matching direct string member is
\* removed.
C21_JsonWalkIgnoresMatch ==
  (AppliedJsonRule /\ ~Match(inRules[1], inContent) /\ IsJsonDocument(inContent)
     /\ ~Doomed(inRules[1], Unmarshal(inContent).v)) =>
    LET out == Unmarshal(outContent)
    IN out.ok /\ Pruned(inRules[1], Unmarshal(inContent).v, out.v)

\* an enabled prefix rule for "s": {"a": {"x": "ss", "y": 1}, "b": 2} does
\* not start with s, the leaf "ss" does, and the result is {"b": 2}
C21_Witness ==
  /\ AppliedJsonRule
  /\ inRules[1].enabled
  /\ inRules[1].mode = "prefix"
  /\ ~Match(inRules[1], inContent)
  /\ inContent = Compact(JObj(<< KA, KB >>,
                   << JObj(<< KX, KY >>, << SS, JNum(<< "1" >>) >>), JNum(<< "2" >>) >>))
  /\ Unmarshal(outContent).v = JObj(<< KB >>, << JNum(<< "2" >>) >>)

\* strings.TrimSpace
RECURSIVE TrimSpace(_)
TrimSpace(s) ==
  IF s = << >> THEN s
  ELSE IF IsWs(s[1]) THEN TrimSpace(Tail(s))
  ELSE IF IsWs(s[Len(s)]) THEN TrimSpace(Sub(s, 1, Len(s) - 1))
  ELSE s

\* C22: the JSON-likeness check of delete_json_field is made after trimming
\* surrounding white space: content that is a JSON object or array with
\* white space before or after it gives what the same content without that
\* white space gives.
C22_TrimmedBeforeCheck ==
  (AppliedJsonRule /\ IsJsonDocument(TrimSpace(inContent))) =>
    outContent = Apply(inRules[1], TrimSpace(inContent))

\* an Apply of one enabled delete+contains rule
DeletedContains ==
  /\ op = "Apply"
  /\ inRules[1].enabled
  /\ inRules[1].mode = "contains"
  /\ inRules[1].action = "delete"

\* the position of the leftmost occurrence of p in s
FirstOccurrence(s, p) ==
  CHOOSE i \in 1..Len(s) : OccursAt(s, p, i) /\ \A j \in 1..(i - 1) : ~OccursAt(s, p, j)

\* C23 as stated: after an enabled delete+contains rule the output of Apply
\* holds no occurrence of the pattern, for every content, also when a
\* removal joins the text around it into a new occurrence.
C23_NoOccurrenceLeft ==
  DeletedContains => ~Contains(outContent, inRules[1].pattern)

\* C23, amended: an enabled delete+contains rule cuts out the occurrences of
\* the pattern that one scan from left to right finds: content without an
\* occurrence is returned as it is; otherwise the text before the leftmost
\* occurrence is kept, that occurrence is gone and the output is shorter by
\* a multiple of the pattern's length; and for a pattern of one character
\* the output holds no occurrence of the pattern.
C23_OnePassDelete ==
  DeletedContains =>
    LET pat == inRules[1].pattern
    IN /\ ~Contains(inContent, pat) => outContent = inContent
       /\ Contains(inContent, pat) =>
            LET i == FirstOccurrence(inContent, pat)
            IN /\ Len(outContent) < Len(inContent)
               /\ (Len(inContent) - Len(outContent)) % Len(pat) = 0
               /\ Sub(outContent, 1, i - 1) = Sub(inContent, 1, i - 1)
               /\ outContent = Sub(inContent, 1, i - 1)
                     \o Apply(inRules[1], Sub(inContent, i + Len(pat), Len(inContent)))
       /\ Len(pat) = 1 => ~Contains(outContent, pat)

\* "sass" without its two occurrences of "s" that are not adjacent, and of
\* the pair that is: the pattern of one character leaves "a"
C23_Witness ==
  /\ DeletedContains
  /\ inRules[1].pattern = << "s" >>
  /\ inContent = << "s", "a", "s", "s" >>
  /\ outContent = << "a" >>

\* C24: for content that is a JSON object or array, Apply with a
\* delete_json_field rule returns the text of a JSON value of the same
\* top-level kind: an object stays an object, an array stays an array, and
\* the result is never null, also when the top-level object itself has a
\* matching direct string member.
C24_TopLevelKindKept ==
  (AppliedJsonRule /\ IsJsonDocument(inContent)) =>
    LET out == Unmarshal(outContent)
    IN /\ out.ok
       /\ out.v.k = Unmarshal(inContent).v.k
       /\ outContent # << "n", "u", "l", "l" >>

\* an Apply of one enabled prefix or suffix rule that deletes or replaces
AppliedBoundaryRule ==
  /\ op = "Apply"
  /\ inRules[1].enabled
  /\ inRules[1].mode \in {"prefix", "suffix"}
  /\ inRules[1].action \in {"delete", "replace"}

\* C25: for an enabled prefix (suffix) rule whose pattern is a prefix
\* (suffix) of the content, delete removes that one leading (trailing)
\* occurrence and replace puts the value in its place; the rest of the
\* content, further occurrences included, stays as it is; content that does
\* not start (end) with the pattern is returned unchanged.
C25_BoundaryOccurrenceOnly ==
  AppliedBoundaryRule =>
    LET r == inRules[1]
        new == IF r.action = "replace" THEN r.value ELSE << >>
        n == Len(r.pattern)
    IN IF r.mode = "prefix"
       THEN IF HasPrefix(inContent, r.pattern)
            THEN \E rest \in {Sub(inContent, n + 1, Len(inContent))} :
                   inContent = r.pattern \o rest /\ outContent = new \o rest
            ELSE outContent = inContent
       ELSE IF HasSuffix(inContent, r.pattern)
            THEN \E rest \in {Sub(inContent, 1, Len(inContent) - n)} :
                   inContent = rest \o r.pattern /\ outContent = rest \o new
            ELSE outContent = inContent

\* a suffix rule replaced the trailing "as" of "asas" and left the leading
\* one alone
C25_Witness ==
  /\ AppliedBoundaryRule
  /\ inRules[1].mode = "suffix"
  /\ inRules[1].action = "replace"
  /\ inRules[1].pattern = << "a", "s" >>
  /\ inContent = << "a", "s", "a", "s" >>
  /\ outContent = << "a", "s" >> \o inRules[1].value

\* C15: with an empty rule list Process returns the content as it is and no
\* error, for every content and whether or not the engine is stopped.
C15_EmptyListIsIdentity ==
  (op = "Process" /\ Len(inRules) = 0) =>
    (outContent = inContent /\ ~outErr)

\* Process ran with no rules on a content that is not empty, in a stopped
\* engine
C15_Witness ==
  /\ op = "Process"
  /\ inRules = << >>
  /\ inStopped
  /\ inContent # << >>
  /\ outContent = inContent

\* the value of a rule overlaps its pattern: one contains the other, or a
\* proper prefix of one is a suffix of the other
Overlaps(pat, val) ==
  \/ Contains(val, pat)
  \/ Contains(pat, val)
  \/ \E k \in 1..(Len(pat) - 1) :
       k < Len(val) /\ (HasSuffix(val, Sub(pat, 1, k))
                         \/ HasPrefix(val, Sub(pat, Len(pat) - k + 1, Len(pat))))

\* an Apply, Apply sequence of one enabled contains+replace rule
ReplacedTwice ==
  /\ op = "ApplyTwice"
  /\ inRules[1].enabled
  /\ inRules[1].mode = "contains"
  /\ inRules[1].action = "replace"

\* C17 as stated: for an enabled contains+replace rule whose value does not
\* contain its pattern, Apply(rule, Apply(rule, c)) = Apply(rule, c) for every
\* content c.
C17_ValueWithoutPattern ==
  (ReplacedTwice /\ ~Contains(inRules[1].value, inRules[1].pattern)) =>
    outContent = Apply(inRules[1], inContent)

\* C17, amended: for an enabled contains+replace rule whose value does not
\* overlap its pattern (neither contains the other and no proper prefix of
\* one is a suffix of the other), Apply(rule, Apply(rule, c)) =
\* Apply(rule, c) for every content c.
C17_NoOverlapIdempotent ==
  (ReplacedTwice /\ ~Overlaps(inRules[1].pattern, inRules[1].value)) =>
    outContent = Apply(inRules[1], inContent)

\* a rule with a pattern of two characters and a value that does not overlap
\* it, applied twice to a content with two occurrences
C17_Witness ==
  /\ ReplacedTwice
  /\ Len(inRules[1].pattern) = 2
  /\ ~Overlaps(inRules[1].pattern, inRules[1].value)
  /\ inContent = << "a", "s", "a", "s" >>
  /\ outContent = inRules[1].value \o inRules[1].value

\* ------------------------------------------------------------------------
\* Rule files: config.LoadRulesFromPaths and validateRule
\*   a file is [ok, rules]: ok is FALSE when the file is missing, cannot be
\*   read or is not YAML; rules are the rules it holds, not yet validated
\* ------------------------------------------------------------------------

\* validateRule: TRUE when the rule passes
validateRule(r) ==
  /\ r.name # ""
  /\ r.mode # ""
  /\ r.mode \in Modes
  /\ r.pattern # << >>
  /\ r.action # ""
  /\ r.action \in Actions
  /\ ~(r.action = "replace" /\ r.value = << >>)
  /\ (r.mode = "regex" => RegexCompiles(r.pattern))

\* validateRules
validateRules(rules) == \A i \in 1..Len(rules) : validateRule(rules[i])

RECURSIVE ConcatFiles(_, _, _)
ConcatFiles(fs, paths, i) ==
  IF i > Len(paths) THEN << >>
  ELSE fs[paths[i]].rules \o ConcatFiles(fs, paths, i + 1)

\* LoadRulesFromPaths without validateRules
LoadRulesFromPathsNoValidate(fs, paths) ==
  IF \E i \in 1..Len(paths) : ~fs[paths[i]].ok
  THEN [ok |-> FALSE, rules |-> << >>]
  ELSE [ok |-> TRUE, rules |-> ConcatFiles(fs, paths, 1)]

\* config.LoadRulesFromPaths on the file system fs: every file is read and
\* the rules are concatenated in path order, then validated as one unit
LoadRulesFromPaths(fs, paths) ==
  IF \E i \in 1..Len(paths) : ~fs[paths[i]].ok
  THEN [ok |-> FALSE, rules |-> << >>]
  ELSE IF ~validateRules(ConcatFiles(fs, paths, 1))
  THEN [ok |-> FALSE, rules |-> << >>]
  ELSE [ok |-> TRUE, rules |-> ConcatFiles(fs, paths, 1)]

\* ------------------------------------------------------------------------
\* watcher.Watcher and the reload path into the Engine
\* ------------------------------------------------------------------------

\* file system events the environment produces in one run
MaxEvents == 3
\* events waiting in watcher.Events at one time
MaxQueue == 1

\* the configured rule files (rules.files)
RulePaths == << "f1", "f2" >>

PathSet == {RulePaths[i] : i \in 1..Len(RulePaths)}

RuleA == Rule("a", TRUE, "contains", PatS, "delete", << >>)
RuleB == Rule("b", TRUE, "prefix", PatS, "replace", ValB)
RuleC == Rule("c", FALSE, "regex", PatRegex, "delete_json_field", << >>)

\* rules that validateRule rejects, one for each of its checks
InvalidRules ==
  { [RuleA EXCEPT !.name = ""],
    [RuleA EXCEPT !.mode = ""],
    [RuleA EXCEPT !.mode = "fuzzy"],
    [RuleA EXCEPT !.pattern = << >>],
    [RuleA EXCEPT !.action = ""],
    [RuleA EXCEPT !.action = "drop"],
    [RuleB EXCEPT !.value = << >>],
    [RuleC EXCEPT !.pattern = << "[", "s" >>] }

MissingFile == [ok |-> FALSE, rules |-> << >>]

\* a file whose first rule is valid and whose second rule is not
BadFile(bad) == [ok |-> TRUE, rules |-> << RuleB, bad >>]

\* what a rule file may hold at startup
FileStates ==
  { [ok |-> TRUE, rules |-> << RuleA >>],
    [ok |-> TRUE, rules |-> << RuleB, RuleC >>],
    MissingFile }
  \cup { BadFile(bad) : bad \in InvalidRules }

\* what an edit may leave in a rule file
EditStates ==
  { [ok |-> TRUE, rules |-> << RuleA >>],
    [ok |-> TRUE, rules |-> << RuleB, RuleC >>],
    BadFile([RuleA EXCEPT !.name = ""]),
    BadFile([RuleC EXCEPT !.pattern = << "[", "s" >>]) }

WatchedOps == {"write", "create", "remove", "rename"}

TaskIds == 1..MaxEvents

\* the environment changes a rule file; fsnotify queues the event
FsChange(f, fsop, new) ==
  /\ produced < MaxEvents
  /\ Len(events) < MaxQueue
  /\ ~wStopped
  /\ files' = [files EXCEPT ![f] = IF fsop \in {"remove", "rename"} THEN MissingFile ELSE new]
  /\ events' = Append(events, [name |-> f, op |-> fsop])
  /\ produced' = produced + 1
  /\ UNCHANGED << eRules, wRules, shared, wStopped, timerArmed, timerC, task, fires, reloads, loaded, lastLoad >>
  /\ WatchFrame

\* an event that changes no rule file: another file of the watched
\* directory, or a chmod of a rule file
FsNoise(name, fsop) ==
  /\ produced < MaxEvents
  /\ Len(events) < MaxQueue
  /\ ~wStopped
  /\ events' = Append(events, [name |-> name, op |-> fsop])
  /\ produced' = produced + 1
  /\ UNCHANGED << files, eRules, wRules, shared, wStopped, timerArmed, timerC, task, fires, reloads, loaded, lastLoad >>
  /\ WatchFrame

\* Watcher.isWatchedFile
isWatchedFile(name) == \E i \in 1..Len(RulePaths) : RulePaths[i] = name

\* what debounceTimer.Stop() leaves in debounceTimer.C before Reset: the
\* value of an expiry nobody received yet stays there (timers before Go
\* 1.23) or is discarded (Go 1.23 and later)
AfterTimerStop(c) == IF c = 1 THEN {0, 1} ELSE {0}

\* a goroutine that does not wait for the timer
WaiterNeverWaits == TRUE

\* the goroutine of handleEvent blocks on <-debounceTimer.C
WaiterCanReceive == timerC = 1

FreeTask == CHOOSE i \in TaskIds : task[i] = "none" /\ \A j \in TaskIds : j < i => task[j] # "none"

\* watchLoop takes one event and calls Watcher.handleEvent
HandleEvent ==
  /\ ~wStopped
  /\ events # << >>
  /\ events' = Tail(events)
  /\ IF isWatchedFile(Head(events).name) /\ Head(events).op \in WatchedOps
     THEN /\ timerC' \in AfterTimerStop(timerC)
          /\ timerArmed' = TRUE
          /\ task' = [task EXCEPT ![FreeTask] = "waiting"]
     ELSE UNCHANGED << timerC, timerArmed, task >>
  /\ UNCHANGED << files, eRules, wRules, shared, produced, wStopped, fires, reloads, loaded, lastLoad >>
  /\ WatchFrame

\* 500ms passed since the last Reset: the timer sends on its channel, which
\* holds one value at most
TimerFire ==
  /\ timerArmed
  /\ timerArmed' = FALSE
  /\ timerC' = 1
  /\ fires' = fires + 1
  /\ UNCHANGED << files, eRules, wRules, shared, events, produced, wStopped, task, reloads, loaded, lastLoad >>
  /\ WatchFrame

\* a goroutine of handleEvent receives from debounceTimer.C and calls
\* reloadRules
WaiterReceive(t) ==
  /\ task[t] = "waiting"
  /\ WaiterCanReceive
  /\ timerC' = 0
  /\ task' = [task EXCEPT ![t] = "load"]
  /\ reloads' = reloads + 1
  /\ UNCHANGED << files, eRules, wRules, shared, events, produced, wStopped, timerArmed, fires, loaded, lastLoad >>
  /\ WatchFrame

\* Watcher.loadRules, first half: config.LoadRulesFromPaths(w.rulesPath)
\* into the local allRules, or the error that ends reloadRules
ReloadRead(t) ==
  /\ task[t] = "load"
  /\ LET r == LoadRulesFromPaths(files, RulePaths)
     IN IF r.ok
        THEN /\ loaded' = [loaded EXCEPT ![t] = r.rules]
             /\ task' = [task EXCEPT ![t] = "assign"]
             /\ lastLoad' = lastLoad
        ELSE /\ lastLoad' = "error"
             /\ task' = [task EXCEPT ![t] = "done"]
             /\ loaded' = loaded
  /\ UNCHANGED << files, eRules, wRules, shared, events, produced, wStopped, timerArmed, timerC, fires, reloads >>
  /\ WatchFrame

\* Watcher.loadRules, second half: w.rules = allRules under w.mutex (the
\* slice LoadRulesFromPaths has just built)
ReloadAssign(t) ==
  /\ task[t] = "assign"
  /\ wRules' = loaded[t]
  /\ shared' = FALSE
  /\ loaded' = [loaded EXCEPT ![t] = << >>]
  /\ lastLoad' = "ok"
  /\ task' = [task EXCEPT ![t] = "callback"]
  /\ UNCHANGED << files, eRules, events, produced, wStopped, timerArmed, timerC, fires, reloads >>
  /\ WatchFrame

\* Watcher.reloadRules, second half: callback(w.getRules()), which is
\* server.UpdateRules -> Engine.UpdateRules; getRules returns w.rules
\* itself and UpdateRules stores the slice it is given
ReloadCallback(t) ==
  /\ task[t] = "callback"
  /\ eRules' = wRules
  /\ shared' = TRUE
  /\ task' = [task EXCEPT ![t] = "done"]
  /\ UNCHANGED << files, wRules, events, produced, wStopped, timerArmed, timerC, fires, reloads, loaded, lastLoad >>
  /\ WatchFrame

\* Engine.LoadRules / Engine.ReloadRules (Server.ReloadConfig)
EngineLoadRules ==
  /\ LET r == LoadRulesFromPaths(files, RulePaths)
     IN IF r.ok
        THEN eRules' = r.rules /\ lastLoad' = "ok" /\ shared' = FALSE
        ELSE eRules' = eRules /\ lastLoad' = "error" /\ shared' = shared
  /\ UNCHANGED << files, wRules, events, produced, wStopped, timerArmed, timerC, task, fires, reloads, loaded >>
  /\ WatchFrame

\* Watcher.Stop
WatcherStop ==
  /\ ~wStopped
  /\ wStopped' = TRUE
  /\ UNCHANGED << files, eRules, wRules, shared, events, produced, timerArmed, timerC, task, fires, reloads, loaded, lastLoad >>
  /\ WatchFrame

WatchNext ==
  \/ \E f \in PathSet, o \in WatchedOps, new \in EditStates : FsChange(f, o, new)
  \/ FsNoise("other", "write")
  \/ FsNoise("f1", "chmod")
  \/ HandleEvent
  \/ TimerFire
  \/ \E t \in TaskIds : WaiterReceive(t)
  \/ \E t \in TaskIds : ReloadRead(t)
  \/ \E t \in TaskIds : ReloadAssign(t)
  \/ \E t \in TaskIds : ReloadCallback(t)
  \/ EngineLoadRules
  \/ WatcherStop

\* ------------------------------------------------------------------------
\* Properties of the reload path (checked under SpecWatcher)
\* ------------------------------------------------------------------------

\* some configured file cannot be read, or some rule of some file is invalid
SetInvalid ==
  \E i \in 1..Len(RulePaths) :
    \/ ~files[RulePaths[i]].ok
    \/ \E j \in 1..Len(files[RulePaths[i]].rules) : ~validateRule(files[RulePaths[i]].rules[j])

\* C3: a reload (Watcher.reloadRules or Engine.LoadRules) of a rule set with
\* an invalid rule or an unreadable file leaves the engine's rule list as it
\* was and reports an error; the watcher's reload ends without its callback.
C3_InvalidReloadRejected ==
  [][ SetInvalid =>
        /\ \A t \in TaskIds :
             ReloadRead(t) =>
               /\ eRules' = eRules
               /\ wRules' = wRules
               /\ lastLoad' = "error"
               /\ task'[t] = "done"
        /\ EngineLoadRules => (eRules' = eRules /\ lastLoad' = "error")
    ]_vars

\* the engine holds rules, one edit left a file with a valid rule followed
\* by an invalid one, and the one reload that followed ended with an error
C3_Witness ==
  /\ eRules # << >>
  /\ produced = 1
  /\ reloads = 1
  /\ \E t \in TaskIds : task[t] = "done"
  /\ lastLoad = "error"
  /\ \E p \in PathSet : \E bad \in InvalidRules : files[p] = BadFile(bad)

C13_NoReloadAfterStop ==
  [][ wStopped =>
        /\ reloads' = reloads
        /\ \A t \in TaskIds : ~(task[t] = "callback" /\ task'[t] = "done")
    ]_vars

\* the reload path has nothing left to do: every event was handled, the
\* timer is idle with an empty channel and no reloadRules call is running
WatcherQuiet ==
  /\ events = << >>
  /\ ~timerArmed
  /\ timerC = 0
  /\ \A t \in TaskIds : task[t] \in {"none", "waiting", "done"}

\* C18: the reload is eventually consistent under any interleaving of events
\* and reload executions: when the reload path has come to rest after a
\* reload and the files hold a valid rule set, the engine's rule list is the
\* list loaded from the current files (a reload that read older contents has
\* not overwritten the result of one that read newer contents).
C18_ReloadConverges ==
  (WatcherQuiet /\ reloads >= 1 /\ ~SetInvalid) =>
    eRules = LoadRulesFromPaths(files, RulePaths).rules

\* C28: every goroutine that handleEvent starts to wait for the debounce
\* timer ends: once a burst of events was handled and the quiet window has
\* passed (the timer expired and its value was received), no goroutine is
\* left blocked on the timer channel.
C28_NoWaiterLeftBlocked ==
  (events = << >> /\ ~timerArmed /\ timerC = 0 /\ fires >= 1) =>
    \A t \in TaskIds : task[t] # "waiting"

\* ------------------------------------------------------------------------
\* Engine: Process calls in flight against UpdateRules, EnableRule,
\* DisableRule and Stop
\* ------------------------------------------------------------------------

\* concurrent calls of Engine.Process
MaxProcs == 2

ProcIds == 1..MaxProcs

RuleD == Rule("d", TRUE, "contains", ValB, "replace", PatS)

\* the rule lists handed to Engine.UpdateRules
\* (one of them with two rules of the same name: validateRule does not ask
\* for distinct names)
EngineLists ==
  { << RuleA, RuleB >>, << RuleB, RuleD >>,
    << [RuleD EXCEPT !.name = "c"], RuleC >>, << >> }

EngineContents == { << "s", "a", "b" >> }

\* the names given to EnableRule and DisableRule
RuleNames == {"b", "c"}

\* a call of Process that has not started.  rules, i, content, err are the
\* locals of Process; input is its argument; at is the engine's list at the
\* time of the copy, visited the rules the loop has read, swapAt the loop
\* position at which an UpdateRules came in (0: none), stopped whether
\* Engine.Stop had been called when the call took its copy.
IdleCall ==
  [pc |-> "idle", rules |-> << >>, i |-> 0, input |-> << >>, content |-> << >>,
   err |-> FALSE, at |-> << >>, visited |-> << >>, swapAt |-> 0,
   stopped |-> FALSE]

\* sync.RWMutex of the Engine.  Every writer (UpdateRules, EnableRule,
\* DisableRule) locks, writes and unlocks within one step, so a reader never
\* finds the write lock held; a writer waits for the readers.
CanLock == readers = {}

\* a Process that keeps the read lock after the copy
RUnlockDeferred(p) == readers

\* e.mutex.RUnlock() of Process
RUnlock(p) == readers \ {p}

\* Engine.Process: e.mutex.RLock()
ProcessStart(p, content) ==
  /\ proc[p].pc = "idle"
  /\ proc' = [proc EXCEPT ![p] = [IdleCall EXCEPT !.pc = "copy", !.input = content]]
  /\ readers' = readers \cup {p}
  /\ UNCHANGED << eRules, wRules, shared, eStopped, toggle >>
  /\ EngineFrame

\* Engine.Process up to the loop: the copy of e.rules, RUnlock and the
\* return of content for an empty list
ProcessCopy(p) ==
  /\ proc[p].pc = "copy"
  /\ proc' = [proc EXCEPT ![p] =
                [pc |-> IF Len(eRules) = 0 THEN "done" ELSE "loop",
                 rules |-> eRules, i |-> 1, input |-> proc[p].input,
                 content |-> proc[p].input, err |-> FALSE, at |-> eRules,
                 visited |-> << >>, swapAt |-> 0, stopped |-> eStopped]]
  /\ readers' = RUnlock(p)
  /\ UNCHANGED << eRules, wRules, shared, eStopped, toggle >>
  /\ EngineFrame

\* a loop that reads the engine's list in place of its copy
LoopRuleLive(p) ==
  IF proc[p].i <= Len(eRules) THEN eRules[proc[p].i] ELSE proc[p].rules[proc[p].i]

\* the rule of the current iteration: an element of the copy
LoopRule(p) == proc[p].rules[proc[p].i]

\* an iteration that looks at e.ctx before it looks at the rule
ProcessStepCtxFirst(p) ==
  /\ proc[p].pc = "loop"
  /\ LET c == proc[p]
         rule == LoopRule(p)
         seen == Append(c.visited, rule)
         after == IF c.i = Len(c.rules) THEN "done" ELSE "loop"
     IN proc' = [proc EXCEPT ![p] =
          IF eStopped
          THEN [c EXCEPT !.visited = seen, !.content = << >>, !.err = TRUE,
                         !.pc = "done"]
          ELSE IF ~IsEnabled(rule)
          THEN [c EXCEPT !.i = c.i + 1, !.visited = seen, !.pc = after]
          ELSE [c EXCEPT !.i = c.i + 1, !.visited = seen,
                         !.content = ProcessRule(rule, c.content), !.pc = after]]
  /\ UNCHANGED << eRules, wRules, shared, eStopped, readers, toggle >>
  /\ EngineFrame

\* one iteration of the loop of Engine.Process
ProcessStep(p) ==
  /\ proc[p].pc = "loop"
  /\ LET c == proc[p]
         rule == LoopRule(p)
         seen == Append(c.visited, rule)
         after == IF c.i = Len(c.rules) THEN "done" ELSE "loop"
     IN proc' = [proc EXCEPT ![p] =
          IF ~IsEnabled(rule)
          THEN [c EXCEPT !.i = c.i + 1, !.visited = seen, !.pc = after]
          ELSE IF eStopped
          THEN [c EXCEPT !.visited = seen, !.content = << >>, !.err = TRUE,
                         !.pc = "done"]
          ELSE [c EXCEPT !.i = c.i + 1, !.visited = seen,
                         !.content = ProcessRule(rule, c.content), !.pc = after]]
  /\ UNCHANGED << eRules, wRules, shared, eStopped, readers, toggle >>
  /\ EngineFrame

\* Engine.UpdateRules: e.rules = rules under Lock (a call by any caller
\* but the Watcher's callback: the list is a slice of the caller's own)
UpdateRules(list) ==
  /\ CanLock
  /\ eRules' = list
  /\ shared' = FALSE
  /\ proc' = [p \in ProcIds |->
                IF proc[p].pc = "loop" /\ proc[p].swapAt = 0
                THEN [proc[p] EXCEPT !.swapAt = proc[p].i]
                ELSE proc[p]]
  /\ UNCHANGED << wRules, eStopped, readers, toggle >>
  /\ EngineFrame

\* the first rule of the list with this name (the loops of EnableRule and
\* DisableRule return at the first match)
HasRule(list, name) == \E i \in 1..Len(list) : list[i].name = name

FirstNamed(list, name) ==
  CHOOSE i \in 1..Len(list) :
    list[i].name = name /\ \A j \in 1..(i - 1) : list[j].name # name

\* no EnableRule or DisableRule call has returned yet
NoToggle == [name |-> "", enabled |-> FALSE, err |-> FALSE]

\* a loop that sets the flag of a copy of the rule (for _, rule := range)
setEnabledOnCopy(list, name, enabled) ==
  [rules |-> list, err |-> ~HasRule(list, name)]

\* the loop shared by EnableRule and DisableRule: SetEnabled on the first
\* rule with this name and nil, or the error when the loop finds none
setEnabledByName(list, name, enabled) ==
  IF HasRule(list, name)
  THEN [rules |-> [list EXCEPT ![FirstNamed(list, name)].enabled = enabled],
        err |-> FALSE]
  ELSE [rules |-> list, err |-> TRUE]

\* SetEnabled writes the element of the backing array in place, so a slice
\* that shares the array shows the new flag too
WrittenThrough(list) == IF shared THEN list ELSE wRules

\* Engine.EnableRule
EnableRule(name) ==
  /\ CanLock
  /\ eRules' = setEnabledByName(eRules, name, TRUE).rules
  /\ wRules' = WrittenThrough(setEnabledByName(eRules, name, TRUE).rules)
  /\ toggle' = [name |-> name, enabled |-> TRUE,
                err |-> setEnabledByName(eRules, name, TRUE).err]
  /\ UNCHANGED << shared, eStopped, proc, readers >>
  /\ EngineFrame

\* Engine.DisableRule
DisableRule(name) ==
  /\ CanLock
  /\ eRules' = setEnabledByName(eRules, name, FALSE).rules
  /\ wRules' = WrittenThrough(setEnabledByName(eRules, name, FALSE).rules)
  /\ toggle' = [name |-> name, enabled |-> FALSE,
                err |-> setEnabledByName(eRules, name, FALSE).err]
  /\ UNCHANGED << shared, eStopped, proc, readers >>
  /\ EngineFrame

\* Engine.Stop
EngineStop ==
  /\ ~eStopped
  /\ eStopped' = TRUE
  /\ UNCHANGED << eRules, wRules, shared, proc, readers, toggle >>
  /\ EngineFrame

EngineNext ==
  \/ \E p \in ProcIds, content \in EngineContents : ProcessStart(p, content)
  \/ \E p \in ProcIds : ProcessCopy(p)
  \/ \E p \in ProcIds : ProcessStep(p)
  \/ \E list \in EngineLists : UpdateRules(list)
  \/ \E name \in RuleNames : EnableRule(name)
  \/ \E name \in RuleNames : DisableRule(name)
  \/ EngineStop

\* ------------------------------------------------------------------------
\* Properties of the Engine under concurrency (checked under SpecEngine)
\* ------------------------------------------------------------------------

IsPrefixOf(s, t) == Len(s) <= Len(t) /\ \A i \in 1..Len(s) : s[i] = t[i]

\* C2: under any interleaving of Process with UpdateRules every Process call
\* works on one rule list: the rules its loop reads are, in order, the rules
\* of the list that was active when the call copied it, and a call that
\* returns without error has read that whole list and returns what Process
\* computes on it, whatever lists were installed in the meantime.
C2_ProcessSeesOneList ==
  \A p \in ProcIds :
    proc[p].pc # "idle" =>
      /\ IsPrefixOf(proc[p].visited, proc[p].at)
      /\ (proc[p].pc = "done" /\ ~proc[p].err) =>
           /\ proc[p].visited = proc[p].at
           /\ proc[p].content = Process(proc[p].at, proc[p].input, FALSE).content

\* a call that read its first rule, then saw another list of the same length
\* and with another second rule installed, and still finished on its own
\* list with a changed content
C2_Witness ==
  \E p \in ProcIds :
    /\ proc[p].pc = "done"
    /\ ~proc[p].err
    /\ proc[p].swapAt = 2
    /\ Len(proc[p].at) = 2
    /\ Len(eRules) = 2
    /\ eRules[2] # proc[p].at[2]
    /\ proc[p].content # proc[p].input

\* C16: EnableRule(name) and DisableRule(name) return an error and leave the
\* engine's rule list unchanged when no rule of the current list has that
\* name; when one has, they return no error, the first rule with that name
\* gets the flag and nothing else of the list changes, and a Process call
\* that copies the list afterwards works on the list with that flag.
C16_ToggleByName ==
  [][ /\ \A name \in RuleNames :
           (EnableRule(name) \/ DisableRule(name)) =>
             IF HasRule(eRules, name)
             THEN /\ ~toggle'.err
                  /\ Len(eRules') = Len(eRules)
                  /\ \A i \in 1..Len(eRules) :
                       eRules'[i] =
                         IF i = FirstNamed(eRules, name)
                         THEN [eRules[i] EXCEPT !.enabled = toggle'.enabled]
                         ELSE eRules[i]
             ELSE toggle'.err /\ eRules' = eRules
      /\ \A name \in RuleNames : EnableRule(name) => toggle'.enabled
      /\ \A name \in RuleNames : DisableRule(name) => ~toggle'.enabled
      /\ \A p \in ProcIds :
           ProcessCopy(p) => (proc'[p].rules = eRules /\ proc'[p].at = eRules)
    ]_vars

\* DisableRule("b") succeeded on a list that starts with the enabled rule b,
\* a Process call that started afterwards skipped b and finished, and then
\* EnableRule or DisableRule of a missing name returned the error
C16_Witness ==
  /\ toggle.err
  /\ ~HasRule(eRules, toggle.name)
  /\ Len(eRules) = 2
  /\ eRules[1] = [RuleB EXCEPT !.enabled = FALSE]
  /\ \E p \in ProcIds :
       /\ proc[p].pc = "done"
       /\ ~proc[p].err
       /\ proc[p].at = eRules
       /\ proc[p].content = Process(eRules, proc[p].input, FALSE).content

\* C20: a Process call holds the read lock exactly while it copies the rule
\* list, never while it applies rules; so whenever no call is inside the
\* copy, UpdateRules can take the write lock and complete even though calls
\* are applying rules, and a Process call can always take its next step
\* (lock, copy, apply a rule) whatever the other calls are doing.
C20_ReadLockOnlyDuringCopy ==
  /\ \A p \in ProcIds : p \in readers <=> proc[p].pc = "copy"
  /\ (\A p \in ProcIds : proc[p].pc # "copy") =>
       \A list \in EngineLists : ENABLED UpdateRules(list)
  /\ \A p \in ProcIds :
       /\ proc[p].pc = "idle" =>
            \A content \in EngineContents : ENABLED ProcessStart(p, content)
       /\ proc[p].pc = "copy" => ENABLED ProcessCopy(p)
       /\ proc[p].pc = "loop" => ENABLED ProcessStep(p)

\* two calls are applying rules at the same time, nobody holds the lock, and
\* an UpdateRules completed while the first call was in its loop
C20_Witness ==
  /\ readers = {}
  /\ \A p \in ProcIds : proc[p].pc = "loop"
  /\ \E p \in ProcIds : proc[p].swapAt # 0 /\ proc[p].at # eRules

\* C30: a Process call that starts after Engine.Stop returns the error and
\* an empty content exactly when its copy of the rule list holds an enabled
\* rule; with an empty copy or a copy of disabled rules only it returns the
\* content unchanged and no error; and no step of Process and no Stop
\* changes the engine's rule list.
C30_ProcessAfterStop ==
  [][ /\ \A p \in ProcIds :
           (proc'[p].pc = "done" /\ proc'[p].stopped) =>
             /\ proc'[p].err <=>
                  \E i \in 1..Len(proc'[p].at) : proc'[p].at[i].enabled
             /\ proc'[p].err => proc'[p].content = << >>
             /\ ~proc'[p].err => proc'[p].content = proc'[p].input
      /\ (\/ EngineStop
          \/ \E p \in ProcIds :
               \/ \E c \in EngineContents : ProcessStart(p, c)
               \/ ProcessCopy(p)
               \/ ProcessStep(p)) => eRules' = eRules
    ]_vars

\* after Stop one call ran through a list of disabled rules and returned its
\* content, and another call met an enabled rule and returned the error
C30_Witness ==
  /\ eStopped
  /\ \E p \in ProcIds :
       /\ proc[p].pc = "done"
       /\ proc[p].stopped
       /\ ~proc[p].err
       /\ Len(proc[p].at) = 2
       /\ proc[p].content = proc[p].input
  /\ \E p \in ProcIds :
       /\ proc[p].pc = "done"
       /\ proc[p].stopped
       /\ proc[p].err
       /\ proc[p].visited # proc[p].at

\* ------------------------------------------------------------------------
\* Proxy: LoadBalancer.GetNext and the request headers of
\* Forwarder.ForwardRequest
\* ------------------------------------------------------------------------

\* most targets configured for the load balancer
MaxTargets == 3

\* GetNext calls in one behaviour: two rounds
MaxCalls == 2 * MaxTargets

\* most headers of one inbound request
MaxHeaders == 2

UrlPool == << "u1", "u2", "u3", "u4", "u5" >>

\* the configured target lists: distinct URLs, and one URL configured twice
TargetLists ==
  { SubSeq(UrlPool, 1, n) : n \in 1..MaxTargets } \cup { << UrlPool[1], UrlPool[1] >> }

\* a GetNext that stays on the last target
NextIndexNoWrap(i, n) == IF i + 1 < n THEN i + 1 ELSE i

\* lb.currentIndex = (lb.currentIndex + 1) % len(lb.targets)
NextIndex(i, n) == (i + 1) % n

\* LoadBalancer.GetNext (currentIndex counts from 0)
GetNext ==
  /\ Len(targets) > 0
  /\ Len(returned) < MaxCalls
  /\ returned' = Append(returned, targets[currentIndex + 1])
  /\ currentIndex' = NextIndex(currentIndex, Len(targets))
  /\ UNCHANGED << targets, reqHeader, targetHeader, sentTo, resp, lbCall >>
  /\ ProxyFrame

\* the upper-case letters of the modelled header names and their lower-case
\* forms (strings.ToLower, textproto.CanonicalMIMEHeaderKey)
UpperLetters == << "A", "C", "E", "K", "L", "P", "T", "U", "X" >>
LowerLetters == << "a", "c", "e", "k", "l", "p", "t", "u", "x" >>

MapLetter(c, from, to) ==
  IF \E i \in 1..Len(from) : from[i] = c
  THEN to[CHOOSE i \in 1..Len(from) : from[i] = c]
  ELSE c

\* strings.ToLower
ToLower(s) == [i \in 1..Len(s) |-> MapLetter(s[i], UpperLetters, LowerLetters)]

\* textproto.CanonicalMIMEHeaderKey, applied by Header.Add and Header.Del:
\* the first letter and every letter after a hyphen in upper case, the
\* others in lower case
CanonicalMIMEHeaderKey(s) ==
  [i \in 1..Len(s) |->
     IF i = 1 \/ s[i - 1] = "-"
     THEN MapLetter(s[i], LowerLetters, UpperLetters)
     ELSE MapLetter(s[i], UpperLetters, LowerLetters)]

\* an http.Header is a function from keys to sequences of values
EmptyHeader == [k \in {} |-> << >>]

\* http.Header.Add
HeaderAdd(h, key, value) ==
  LET k == CanonicalMIMEHeaderKey(key)
  IN [x \in DOMAIN h \cup {k} |->
        IF x = k
        THEN (IF k \in DOMAIN h THEN Append(h[k], value) ELSE << value >>)
        ELSE h[x]]

\* http.Header.Del
HeaderDel(h, key) ==
  [x \in DOMAIN h \ {CanonicalMIMEHeaderKey(key)} |-> h[x]]

\* the keys of the map skipHeaders of Forwarder.shouldSkipHeader
skipHeaders ==
  { << "C", "o", "n", "n", "e", "c", "t", "i", "o", "n" >>,
    << "K", "e", "e", "p", "-", "A", "l", "i", "v", "e" >>,
    << "P", "r", "o", "x", "y", "-", "A", "u", "t", "h", "e", "n", "t", "i", "c", "a", "t", "e" >>,
    << "P", "r", "o", "x", "y", "-", "A", "u", "t", "h", "o", "r", "i", "z", "a", "t", "i", "o", "n" >>,
    << "T", "e" >>,
    << "T", "r", "a", "i", "l", "e", "r", "s" >>,
    << "T", "r", "a", "n", "s", "f", "e", "r", "-", "E", "n", "c", "o", "d", "i", "n", "g" >>,
    << "U", "p", "g", "r", "a", "d", "e" >>,
    << "P", "r", "o", "x", "y", "-", "C", "o", "n", "n", "e", "c", "t", "i", "o", "n" >> }

\* Forwarder.shouldSkipHeader: the map is looked up with the lower-cased key
shouldSkipHeader(key) ==
  LET lowerKey == ToLower(key)
  IN lowerKey \in skipHeaders \/ HasPrefix(lowerKey, << "p", "r", "o", "x", "y", "-" >>)

\* the inner loop of copyHeaders: dst.Add(key, value) for each value
RECURSIVE addValues(_, _, _, _)
addValues(dst, key, values, j) ==
  IF j > Len(values) THEN dst
  ELSE addValues(HeaderAdd(dst, key, values[j]), key, values, j + 1)

\* Forwarder.copyHeaders; order is the order in which range walks the map
RECURSIVE copyHeaders(_, _, _, _)
copyHeaders(src, order, i, dst) ==
  IF i > Len(order) THEN dst
  ELSE copyHeaders(src, order, i + 1,
                   IF shouldSkipHeader(order[i]) THEN dst
                   ELSE addValues(dst, order[i], src[order[i]], 1))

problematicHeaders == << << "C", "o", "n", "t", "e", "n", "t", "-", "L", "e", "n", "g", "t", "h" >> >>

\* Forwarder.removeProblematicHeaders
RECURSIVE removeProblematicHeaders(_, _)
removeProblematicHeaders(headers, i) ==
  IF i > Len(problematicHeaders) THEN headers
  ELSE removeProblematicHeaders(HeaderDel(headers, problematicHeaders[i]), i + 1)

\* the orders in which a range over the map may visit its keys
KeyOrders(h) ==
  { o \in [1..Cardinality(DOMAIN h) -> DOMAIN h] :
      \A i, j \in 1..Cardinality(DOMAIN h) : i # j => o[i] # o[j] }

\* header names of inbound requests, as net/http stores them (canonical)
HeaderNames ==
  skipHeaders \cup { problematicHeaders[i] : i \in 1..Len(problematicHeaders) } \cup
  { << "C", "o", "n", "t", "e", "n", "t", "-", "T", "y", "p", "e" >>,
    << "X", "-", "A", "p", "i", "-", "K", "e", "y" >>,
    << "P", "r", "o", "x", "y", "-", "X" >> }

HeaderValues == { << "close" >>, << "a", "b" >> }

\* the header maps of inbound requests
RequestHeaders ==
  UNION { [ks -> HeaderValues] :
            ks \in { s \in SUBSET HeaderNames : Cardinality(s) <= MaxHeaders } }

\* Forwarder.ForwardRequest up to httpClient.Do: the base URL (GetNext in
\* multi-target mode, the one target otherwise) and the outbound headers
ForwardRequest ==
  /\ sentTo = "none"
  /\ Len(returned) < MaxCalls
  /\ IF Len(targets) > 1
     THEN /\ returned' = Append(returned, targets[currentIndex + 1])
          /\ currentIndex' = NextIndex(currentIndex, Len(targets))
     ELSE UNCHANGED << returned, currentIndex >>
  /\ sentTo' = targets[currentIndex + 1]
  /\ \E order \in KeyOrders(reqHeader) :
       targetHeader' =
         removeProblematicHeaders(copyHeaders(reqHeader, order, 1, EmptyHeader), 1)
  /\ UNCHANGED << targets, reqHeader, resp, lbCall >>
  /\ ProxyFrame

ProxyNext ==
  \/ GetNext
  \/ ForwardRequest

\* ------------------------------------------------------------------------
\* Properties of the proxy (checked under SpecProxy)
\* ------------------------------------------------------------------------

\* the headers the outbound request must not carry: the hop-by-hop names,
\* every name that starts with Proxy-, and Content-Length, whatever the case
IsHopByHop(key) ==
  \/ \E n \in skipHeaders : ToLower(n) = ToLower(key)
  \/ HasPrefix(ToLower(key), << "p", "r", "o", "x", "y", "-" >>)
  \/ ToLower(key) = ToLower(<< "C", "o", "n", "t", "e", "n", "t", "-", "L", "e", "n", "g", "t", "h" >>)

\* C5: the headers of the outbound request are the inbound headers, with all
\* their values in order, less the hop-by-hop headers, the Proxy- headers and
\* Content-Length.
C5_HeaderSanitization ==
  sentTo # "none" =>
    targetHeader =
      [k \in { x \in DOMAIN reqHeader : ~IsHopByHop(x) } |-> reqHeader[k]]

\* C6: the k-th call of GetNext returns the target at position
\* ((k-1) mod N) + 1 of the N configured targets: each target once in
\* configured order in N calls, the first target again at call N+1, and with
\* one target that target at every call.
C6_RoundRobin ==
  /\ currentIndex \in 0..(Len(targets) - 1)
  /\ \A k \in 1..Len(returned) :
       returned[k] = targets[((k - 1) % Len(targets)) + 1]

\* MaxTargets distinct targets and MaxTargets + 1 calls, one of them made by
\* ForwardRequest: the last call returned the first target again
C6_Witness ==
  /\ Len(targets) = MaxTargets
  /\ Len(returned) = MaxTargets + 1
  /\ returned[MaxTargets + 1] = targets[1]
  /\ \A k \in 1..MaxTargets : returned[k] = UrlPool[k]
  /\ sentTo # "none"

\* ------------------------------------------------------------------------
\* Handler and Server: requests through ServeHTTP, Server.Stop
\* ------------------------------------------------------------------------

\* requests in one behaviour
MaxReqs == 2

ReqIds == 1..MaxReqs

\* request bodies: none, and one that the rules of EngineLists change
HandlerBodies == { << >>, << "s", "a", "b" >> }

\* status codes of the upstream response
UpstreamStatus == {200, 503}

\* a request that has not arrived.  body, readFails (io.ReadAll fails),
\* fwdFails (ForwardRequest returns an error) and upstream (the status of the
\* upstream response) are given with the request; the other fields are what
\* ServeHTTP did.
NoRequest ==
  [pc |-> "none", body |-> << >>, readFails |-> FALSE, fwdFails |-> FALSE,
   upstream |-> 0, status |-> 0, procErr |-> FALSE, forwarded |-> FALSE,
   copied |-> FALSE, sent |-> << >>]

\* a ServeHTTP that forwards whatever Process returned
ServeHTTPForwardAnyway(body, readFails, fwdFails, upstream, rules, cancelled) ==
  LET pr == IF Len(body) > 0 THEN Process(rules, body, cancelled)
            ELSE [content |-> body, err |-> FALSE]
  IN [status |-> IF fwdFails THEN 502 ELSE upstream, procErr |-> pr.err,
      forwarded |-> TRUE, copied |-> ~fwdFails,
      sent |-> IF fwdFails THEN << >> ELSE pr.content]

\* Handler.ServeHTTP: read the body, Process it when it is not empty,
\* ForwardRequest, CopyResponse; http.Error and return at the first failure
ServeHTTP(body, readFails, fwdFails, upstream, rules, cancelled) ==
  LET failed == [status |-> 500, procErr |-> FALSE, forwarded |-> FALSE,
                 copied |-> FALSE, sent |-> << >>]
      pr == IF Len(body) > 0 THEN Process(rules, body, cancelled)
            ELSE [content |-> body, err |-> FALSE]
  IN IF readFails THEN failed
     ELSE IF pr.err THEN [failed EXCEPT !.procErr = TRUE]
     ELSE IF fwdFails
     THEN [status |-> 502, procErr |-> FALSE, forwarded |-> TRUE,
           copied |-> FALSE, sent |-> << >>]
     ELSE [status |-> upstream, procErr |-> FALSE, forwarded |-> TRUE,
           copied |-> TRUE, sent |-> pr.content]

\* http.Server accepts a connection and reads a request
AcceptRequest(r, body, readFails, fwdFails, upstream) ==
  /\ srv # "stopped"
  /\ req[r].pc = "none"
  /\ req' = [req EXCEPT ![r] =
               [NoRequest EXCEPT !.pc = "accepted", !.body = body,
                                 !.readFails = readFails, !.fwdFails = fwdFails,
                                 !.upstream = upstream]]
  /\ UNCHANGED << srv, eRules, eStopped, currentIndex, returned >>
  /\ HandlerFrame

\* Handler.ServeHTTP for an accepted request; ForwardRequest takes the next
\* target of the load balancer in multi-target mode
HandleRequest(r) ==
  /\ req[r].pc = "accepted"
  /\ LET q == req[r]
         out == ServeHTTP(q.body, q.readFails, q.fwdFails, q.upstream, eRules,
                          eStopped)
     IN /\ req' = [req EXCEPT ![r] =
                     [q EXCEPT !.pc = "done", !.status = out.status,
                               !.procErr = out.procErr,
                               !.forwarded = out.forwarded,
                               !.copied = out.copied, !.sent = out.sent]]
        /\ IF out.forwarded /\ Len(targets) > 1
           THEN /\ returned' = Append(returned, targets[currentIndex + 1])
                /\ currentIndex' = NextIndex(currentIndex, Len(targets))
           ELSE UNCHANGED << returned, currentIndex >>
  /\ UNCHANGED << srv, eRules, eStopped >>
  /\ HandlerFrame

\* Server.Stop, first half: s.cancel() and s.engine.Stop()
ServerStopEngine ==
  /\ srv = "serving"
  /\ srv' = "stopping"
  /\ eStopped' = TRUE
  /\ UNCHANGED << req, eRules, currentIndex, returned >>
  /\ HandlerFrame

\* Server.Stop, second half: s.server.Shutdown closes the listeners and
\* waits for the requests in flight
ServerShutdown ==
  /\ srv = "stopping"
  /\ srv' = "stopped"
  /\ UNCHANGED << req, eRules, eStopped, currentIndex, returned >>
  /\ HandlerFrame

HandlerNext ==
  \/ \E r \in ReqIds, body \in HandlerBodies, readFails \in BOOLEAN,
        fwdFails \in BOOLEAN, upstream \in UpstreamStatus :
       AcceptRequest(r, body, readFails, fwdFails, upstream)
  \/ \E r \in ReqIds : HandleRequest(r)
  \/ ServerStopEngine
  \/ ServerShutdown

\* ------------------------------------------------------------------------
\* Properties of the Handler and the Server (checked under SpecHandler)
\* ------------------------------------------------------------------------

\* C11: the outcome of a request is fixed by the first failing stage: a
\* Process error gives status 500 and no ForwardRequest, a ForwardRequest
\* error gives status 502, the upstream response is copied back only when
\* neither failed, and exactly one of the three happens.
C11_FirstFailingStage ==
  \A r \in ReqIds :
    req[r].pc = "done" =>
      LET q == req[r]
          is500 == q.status = 500 /\ ~q.forwarded /\ ~q.copied
          is502 == q.status = 502 /\ q.forwarded /\ ~q.copied
          isCopy == q.copied /\ q.forwarded /\ q.status = q.upstream
      IN /\ q.procErr => is500
         /\ (q.forwarded /\ q.fwdFails) => is502
         /\ q.copied => (~q.procErr /\ ~q.fwdFails /\ ~q.readFails)
         /\ \/ is500 /\ ~is502 /\ ~isCopy
            \/ ~is500 /\ is502 /\ ~isCopy
            \/ ~is500 /\ ~is502 /\ isCopy

\* one request ended with 500 on a Process error, the other with 502 on a
\* ForwardRequest error after its body was processed
C11_Witness ==
  \E r1, r2 \in ReqIds :
    /\ req[r1].pc = "done" /\ req[r1].procErr /\ req[r1].status = 500
    /\ req[r2].pc = "done" /\ req[r2].fwdFails /\ req[r2].status = 502
    /\ req[r2].body # << >>

\* C12: a request accepted before the server stopped accepting gets the
\* outcome it would have had without the shutdown.
C12_DrainedRequestsUnaffected ==
  \A r \in ReqIds :
    req[r].pc = "done" =>
      LET q == req[r]
          out == ServeHTTP(q.body, q.readFails, q.fwdFails, q.upstream, eRules,
                           FALSE)
      IN q.status = out.status /\ q.forwarded = out.forwarded /\ q.sent = out.sent

\* ------------------------------------------------------------------------
\* Startup: config.Load, NewServer, NewWatcher and the first hot reload
\* ------------------------------------------------------------------------

NoConfig == [file |-> "", pathList |-> << >>, autoReload |-> FALSE]

NotStarted == [phase |-> "init", loadErr |-> FALSE]

\* validate of config.Load, the part on rules: a path is required and every
\* configured file must exist
validateConfig(c, fs) ==
  /\ ~(c.file = "" /\ Len(c.pathList) = 0)
  /\ c.file # "" => fs[c.file].ok
  /\ \A i \in 1..Len(c.pathList) : fs[c.pathList[i]].ok

\* the paths NewServer gives the engine: rules.files, or else rules.file
EnginePaths(c) == IF Len(c.pathList) > 0 THEN c.pathList ELSE << c.file >>

\* the paths main gives the watcher: rules.files followed by rules.file
WatcherPaths(c) ==
  c.pathList \o (IF c.file # "" THEN << c.file >> ELSE << >>)

\* main: config.Load; a failed validation ends the process (log.Fatalf)
LoadConfig ==
  /\ boot.phase = "init"
  /\ boot' = [boot EXCEPT !.phase = IF validateConfig(cfg, files) THEN "configured"
                                    ELSE "fatal"]
  /\ UNCHANGED << cfg, eRules, wRules, shared, lastLoad >>
  /\ BootFrame

\* main: proxy.NewServer (NewEngineFromPaths logs a failed load and goes on
\* with no rules) and go server.Start()
StartServer ==
  /\ boot.phase = "configured"
  /\ LET r == LoadRulesFromPaths(files, EnginePaths(cfg))
     IN /\ eRules' = IF r.ok THEN r.rules ELSE eRules
        /\ lastLoad' = IF r.ok THEN "ok" ELSE "error"
        /\ boot' = [phase |-> "serving", loadErr |-> ~r.ok]
        /\ shared' = IF r.ok THEN FALSE ELSE shared
  /\ UNCHANGED << cfg, wRules >>
  /\ BootFrame

\* main: watcher.NewWatcher with its first loadRules, and Start
StartWatcher ==
  /\ boot.phase = "serving"
  /\ cfg.autoReload
  /\ Len(WatcherPaths(cfg)) > 0
  /\ LET r == LoadRulesFromPaths(files, WatcherPaths(cfg))
     IN /\ wRules' = IF r.ok THEN r.rules ELSE wRules
        /\ lastLoad' = IF r.ok THEN "ok" ELSE "error"
        /\ shared' = IF r.ok THEN FALSE ELSE shared
  /\ boot' = [boot EXCEPT !.phase = "watching"]
  /\ UNCHANGED << cfg, eRules >>
  /\ BootFrame

\* Watcher.reloadRules, run once with the files as they were at startup
HotReload ==
  /\ boot.phase = "watching"
  /\ LET r == LoadRulesFromPaths(files, WatcherPaths(cfg))
     IN /\ wRules' = IF r.ok THEN r.rules ELSE wRules
        /\ eRules' = IF r.ok THEN r.rules ELSE eRules
        /\ lastLoad' = IF r.ok THEN "ok" ELSE "error"
        /\ shared' = IF r.ok THEN TRUE ELSE shared
  /\ boot' = [boot EXCEPT !.phase = "reloaded"]
  /\ UNCHANGED cfg
  /\ BootFrame

BootNext ==
  \/ LoadConfig
  \/ StartServer
  \/ StartWatcher
  \/ HotReload

\* ------------------------------------------------------------------------
\* Properties of the startup (checked under SpecBoot)
\* ------------------------------------------------------------------------

\* C14: a failed rule load at startup is fatal: the process does not get to
\* serve requests after it.
C14_StartupLoadFailureIsFatal ==
  boot.phase \in {"serving", "watching", "reloaded"} => ~boot.loadErr

\* C19: a hot reload with the files unchanged installs the list the engine
\* loaded at startup, whether rules.file, rules.files or both are set.
C19_ReloadLoadsStartupFiles ==
  boot.phase = "reloaded" =>
    eRules = LoadRulesFromPaths(files, EnginePaths(cfg)).rules

\* ------------------------------------------------------------------------
\* Forwarder.CopyResponse: the upstream response written to the
\* http.ResponseWriter of the inbound request
\* ------------------------------------------------------------------------

\* no response yet.  header, status, body are resp.Header, resp.StatusCode
\* and resp.Body; wHeader is w.Header(), wStatus and wSent the status code
\* and the headers that WriteHeader sent (0: nothing sent yet), wBody the
\* bytes written behind them
NoResponse ==
  [pc |-> "none", header |-> EmptyHeader, status |-> 0, body |-> << >>,
   wHeader |-> EmptyHeader, wStatus |-> 0, wSent |-> EmptyHeader, wBody |-> << >>]

\* Forwarder.ForwardRequest, httpClient.Do returns the upstream response
ReceiveResponse(h, s, b) ==
  /\ sentTo # "none"
  /\ resp.pc = "none"
  /\ resp' = [NoResponse EXCEPT !.pc = "received", !.header = h, !.status = s,
                                !.body = b]
  /\ UNCHANGED << targets, currentIndex, returned, reqHeader, targetHeader, sentTo, lbCall >>
  /\ ProxyFrame

\* Forwarder.shouldSkipResponseHeader: the map holds the canonical names
\* (the names of skipHeaders without Proxy-Connection) and is looked up with
\* the lower-cased key
shouldSkipResponseHeader(key) ==
  LET lowerKey == ToLower(key)
  IN \/ lowerKey \in skipHeaders \ { << "P", "r", "o", "x", "y", "-", "C", "o", "n", "n", "e", "c", "t", "i", "o", "n" >> }
     \/ HasPrefix(lowerKey, << "p", "r", "o", "x", "y", "-" >>)

\* Forwarder.copyResponseHeaders; order is the order of range over src
RECURSIVE copyResponseHeaders(_, _, _, _)
copyResponseHeaders(src, order, i, dst) ==
  IF i > Len(order) THEN dst
  ELSE copyResponseHeaders(src, order, i + 1,
                           IF shouldSkipResponseHeader(order[i]) THEN dst
                           ELSE addValues(dst, order[i], src[order[i]], 1))

\* http.ResponseWriter.WriteHeader: the first call sends the status line and
\* the headers set so far
WriteHeader(r, code) ==
  IF r.wStatus # 0 THEN r ELSE [r EXCEPT !.wStatus = code, !.wSent = r.wHeader]

\* Forwarder.CopyResponse: headers, status code, body
CopyResponse ==
  /\ resp.pc = "received"
  /\ \E order \in KeyOrders(resp.header) :
       LET a == [resp EXCEPT !.wHeader =
                   copyResponseHeaders(resp.header, order, 1, resp.wHeader)]
           b == WriteHeader(a, resp.status)
       IN resp' = [b EXCEPT !.wBody = b.wBody \o resp.body, !.pc = "copied"]
  /\ UNCHANGED << targets, currentIndex, returned, reqHeader, targetHeader, sentTo, lbCall >>
  /\ ProxyFrame

ResponseNext ==
  \/ ForwardRequest
  \/ \E h \in RequestHeaders, s \in UpstreamStatus, b \in HandlerBodies :
       ReceiveResponse(h, s, b)
  \/ CopyResponse

\* the response headers the caller must not get: the hop-by-hop names and
\* every name that starts with Proxy-, whatever the case
IsHopByHopResponse(key) ==
  \/ \E n \in skipHeaders : ToLower(n) = ToLower(key)
  \/ HasPrefix(ToLower(key), << "p", "r", "o", "x", "y", "-" >>)

\* C26: CopyResponse delivers the upstream status code, the upstream body
\* unmodified and exactly the upstream response headers that are not
\* hop-by-hop (Connection, Keep-Alive, Proxy-Authenticate,
\* Proxy-Authorization, TE, Trailers, Transfer-Encoding, Upgrade, anything
\* that starts with Proxy-, whatever the case); the headers are set before
\* the status code is written.
C26_ResponseCopied ==
  resp.pc = "copied" =>
    /\ resp.wStatus = resp.status
    /\ resp.wBody = resp.body
    /\ resp.wSent =
         [k \in { x \in DOMAIN resp.header : ~IsHopByHopResponse(x) } |-> resp.header[k]]

\* ------------------------------------------------------------------------
\* LoadBalancer.GetNext called from concurrent requests
\* ------------------------------------------------------------------------

\* goroutines calling GetNext at the same time
MaxCallers == 2

CallerIds == 1..MaxCallers

\* a caller outside GetNext; target is the local of GetNext, done the number
\* of calls this caller has completed
IdleCaller == [pc |-> "idle", target |-> "", done |-> 0]

\* a GetNext that does not wait for the mutex
lbMutexIgnored == TRUE

\* lb.mutex is free: no caller is between Lock and Unlock
lbMutexFree == \A c \in CallerIds : lbCall[c].pc # "locked"

\* GetNext up to the read: lb.mutex.Lock(), target := lb.targets[lb.currentIndex]
GetNextEnter(c) ==
  /\ Len(targets) > 0
  /\ lbCall[c].pc = "idle"
  /\ Len(returned) + Cardinality({ d \in CallerIds : lbCall[d].pc = "locked" }) < MaxCalls
  /\ lbMutexFree
  /\ lbCall' = [lbCall EXCEPT ![c].pc = "locked", ![c].target = targets[currentIndex + 1]]
  /\ UNCHANGED << targets, currentIndex, returned, reqHeader, targetHeader, sentTo, resp >>
  /\ ProxyFrame

\* GetNext from the update on: the cursor moves on, the deferred Unlock runs
\* and the call returns target
GetNextLeave(c) ==
  /\ lbCall[c].pc = "locked"
  /\ currentIndex' = NextIndex(currentIndex, Len(targets))
  /\ returned' = Append(returned, lbCall[c].target)
  /\ lbCall' = [lbCall EXCEPT ![c].pc = "idle", ![c].done = lbCall[c].done + 1]
  /\ UNCHANGED << targets, reqHeader, targetHeader, sentTo, resp >>
  /\ ProxyFrame

BalancerNext ==
  \/ \E c \in CallerIds : GetNextEnter(c)
  \/ \E c \in CallerIds : GetNextLeave(c)

\* how often target u was returned
TimesReturned(u) == Cardinality({ k \in 1..Len(returned) : returned[k] = u })

\* C27: under any interleaving of concurrent GetNext calls on N >= 1 targets
\* the cursor stays in 0..N-1 and no update of it is lost: the k-th call to
\* leave the critical section returned the target at position (k-1) mod N,
\* the cursor is k mod N after k calls, and with distinct targets each one
\* was returned floor(k/N) or ceil(k/N) times.
C27_ConcurrentRoundRobin ==
  LET n == Len(targets)
      k == Len(returned)
  IN /\ currentIndex \in 0..(n - 1)
     /\ currentIndex = k % n
     /\ \A j \in 1..k : returned[j] = targets[((j - 1) % n) + 1]
     /\ (\A i, j \in 1..n : i # j => targets[i] # targets[j]) =>
          \A i \in 1..n : TimesReturned(targets[i]) \in { k \div n, (k + n - 1) \div n }

\* MaxTargets targets, MaxTargets + 1 calls completed by the callers between
\* them, every caller at least once, and the next call inside the critical
\* section while the others wait
C27_Witness ==
  /\ Len(targets) = MaxTargets
  /\ Len(returned) = MaxTargets + 1
  /\ \A c \in CallerIds : lbCall[c].done >= 1
  /\ \E c \in CallerIds : lbCall[c].pc = "locked" /\ lbCall[c].target = targets[2]

\* ------------------------------------------------------------------------
\* Watcher and Engine on one rule list (checked under SpecShare)
\* ------------------------------------------------------------------------

\* Watcher.GetRules: a fresh slice with the elements of w.rules
GetRules == [i \in 1..Len(wRules) |-> wRules[i]]

\* the reload path of the Watcher next to the callers of the Engine
ShareNext ==
  \/ \E new \in EditStates : FsChange(RulePaths[2], "write", new)
  \/ HandleEvent
  \/ TimerFire
  \/ \E t \in TaskIds : WaiterReceive(t)
  \/ \E t \in TaskIds : ReloadRead(t)
  \/ \E t \in TaskIds : ReloadAssign(t)
  \/ \E t \in TaskIds : ReloadCallback(t)
  \/ \E list \in EngineLists : UpdateRules(list)
  \/ \E name \in RuleNames : EnableRule(name)
  \/ \E name \in RuleNames : DisableRule(name)

\* C29: Engine.EnableRule, Engine.DisableRule and Engine.UpdateRules never
\* change what Watcher.GetRules returns; the Watcher's list changes only
\* through a successful reload of the Watcher.
C29_WatcherListOwnedByWatcher ==
  [][ (\/ \E name \in RuleNames : EnableRule(name) \/ DisableRule(name)
       \/ \E list \in EngineLists : UpdateRules(list))
        => GetRules' = GetRules ]_vars

\* ------------------------------------------------------------------------
\* Specifications
\* ------------------------------------------------------------------------

\* calls of Rule.Apply and Engine.Process on every rule list and content
RuleInit ==
  /\ inRules \in RuleLists \cup { << r >> : r \in ReplaceRules \cup TextRules }
  /\ inContent \in Contents \cup ReplaceTexts
  /\ inStopped \in BOOLEAN
  /\ op = "none"
  /\ outContent = << >>
  /\ outErr = FALSE
  /\ files = [p \in PathSet |-> MissingFile]
  /\ eRules = << >>
  /\ wRules = << >>
  /\ events = << >>
  /\ produced = 0
  /\ wStopped = FALSE
  /\ timerArmed = FALSE
  /\ timerC = 0
  /\ task = [i \in TaskIds |-> "none"]
  /\ fires = 0
  /\ reloads = 0
  /\ lastLoad = "none"
  /\ eStopped = FALSE
  /\ proc = [p \in ProcIds |-> IdleCall]
  /\ targets = << "u1" >>
  /\ currentIndex = 0
  /\ returned = << >>
  /\ reqHeader = EmptyHeader
  /\ targetHeader = EmptyHeader
  /\ sentTo = "none"
  /\ req = [r \in ReqIds |-> NoRequest]
  /\ srv = "serving"
  /\ cfg = NoConfig
  /\ boot = NotStarted
  /\ readers = {}
  /\ toggle = NoToggle
  /\ loaded = [i \in TaskIds |-> << >>]
  /\ resp = NoResponse
  /\ lbCall = [c \in CallerIds |-> IdleCaller]
  /\ shared = FALSE

SpecRule == RuleInit /\ [][RuleNext]_vars

\* the Watcher, its debounce timer and the reloads into the Engine.
\* NewEngineFromPaths and NewWatcher both load the files at startup; a
\* failed load is logged and leaves the list empty.
WatchInit ==
  /\ files \in [PathSet -> FileStates]
  /\ eRules = LoadRulesFromPaths(files, RulePaths).rules
  /\ wRules = LoadRulesFromPaths(files, RulePaths).rules
  /\ events = << >>
  /\ produced = 0
  /\ wStopped = FALSE
  /\ timerArmed = FALSE
  /\ timerC = 0
  /\ task = [i \in TaskIds |-> "none"]
  /\ fires = 0
  /\ reloads = 0
  /\ lastLoad = "none"
  /\ inRules = << >>
  /\ inContent = << >>
  /\ inStopped = FALSE
  /\ op = "none"
  /\ outContent = << >>
  /\ outErr = FALSE
  /\ eStopped = FALSE
  /\ proc = [p \in ProcIds |-> IdleCall]
  /\ targets = << "u1" >>
  /\ currentIndex = 0
  /\ returned = << >>
  /\ reqHeader = EmptyHeader
  /\ targetHeader = EmptyHeader
  /\ sentTo = "none"
  /\ req = [r \in ReqIds |-> NoRequest]
  /\ srv = "serving"
  /\ cfg = NoConfig
  /\ boot = NotStarted
  /\ readers = {}
  /\ toggle = NoToggle
  /\ loaded = [i \in TaskIds |-> << >>]
  /\ resp = NoResponse
  /\ lbCall = [c \in CallerIds |-> IdleCaller]
  /\ shared = FALSE

SpecWatcher == WatchInit /\ [][WatchNext]_vars

\* Process calls in flight while rule lists are installed, rules are enabled
\* and disabled and the engine is stopped
EngineInit ==
  /\ eRules \in EngineLists
  /\ eStopped = FALSE
  /\ proc = [p \in ProcIds |-> IdleCall]
  /\ inRules = << >>
  /\ inContent = << >>
  /\ inStopped = FALSE
  /\ op = "none"
  /\ outContent = << >>
  /\ outErr = FALSE
  /\ files = [p \in PathSet |-> MissingFile]
  /\ wRules = << >>
  /\ events = << >>
  /\ produced = 0
  /\ wStopped = FALSE
  /\ timerArmed = FALSE
  /\ timerC = 0
  /\ task = [i \in TaskIds |-> "none"]
  /\ fires = 0
  /\ reloads = 0
  /\ lastLoad = "none"
  /\ targets = << "u1" >>
  /\ currentIndex = 0
  /\ returned = << >>
  /\ reqHeader = EmptyHeader
  /\ targetHeader = EmptyHeader
  /\ sentTo = "none"
  /\ req = [r \in ReqIds |-> NoRequest]
  /\ srv = "serving"
  /\ cfg = NoConfig
  /\ boot = NotStarted
  /\ readers = {}
  /\ toggle = NoToggle
  /\ loaded = [i \in TaskIds |-> << >>]
  /\ resp = NoResponse
  /\ lbCall = [c \in CallerIds |-> IdleCaller]
  /\ shared = FALSE

SpecEngine == EngineInit /\ [][EngineNext]_vars

\* the load balancer under GetNext calls and one request through
\* ForwardRequest
ProxyInit ==
  /\ targets \in TargetLists
  /\ currentIndex = 0
  /\ returned = << >>
  /\ reqHeader \in RequestHeaders
  /\ targetHeader = EmptyHeader
  /\ sentTo = "none"
  /\ inRules = << >>
  /\ inContent = << >>
  /\ inStopped = FALSE
  /\ op = "none"
  /\ outContent = << >>
  /\ outErr = FALSE
  /\ files = [p \in PathSet |-> MissingFile]
  /\ eRules = << >>
  /\ wRules = << >>
  /\ events = << >>
  /\ produced = 0
  /\ wStopped = FALSE
  /\ timerArmed = FALSE
  /\ timerC = 0
  /\ task = [i \in TaskIds |-> "none"]
  /\ fires = 0
  /\ reloads = 0
  /\ lastLoad = "none"
  /\ eStopped = FALSE
  /\ proc = [p \in ProcIds |-> IdleCall]
  /\ req = [r \in ReqIds |-> NoRequest]
  /\ srv = "serving"
  /\ cfg = NoConfig
  /\ boot = NotStarted
  /\ readers = {}
  /\ toggle = NoToggle
  /\ loaded = [i \in TaskIds |-> << >>]
  /\ resp = NoResponse
  /\ lbCall = [c \in CallerIds |-> IdleCaller]
  /\ shared = FALSE

SpecProxy == ProxyInit /\ [][ProxyNext]_vars

\* requests arriving and being served while the server is stopped
HandlerInit ==
  /\ eRules \in EngineLists
  /\ targets \in { SubSeq(UrlPool, 1, n) : n \in 1..2 }
  /\ req = [r \in ReqIds |-> NoRequest]
  /\ srv = "serving"
  /\ eStopped = FALSE
  /\ currentIndex = 0
  /\ returned = << >>
  /\ proc = [p \in ProcIds |-> IdleCall]
  /\ reqHeader = EmptyHeader
  /\ targetHeader = EmptyHeader
  /\ sentTo = "none"
  /\ inRules = << >>
  /\ inContent = << >>
  /\ inStopped = FALSE
  /\ op = "none"
  /\ outContent = << >>
  /\ outErr = FALSE
  /\ files = [p \in PathSet |-> MissingFile]
  /\ wRules = << >>
  /\ events = << >>
  /\ produced = 0
  /\ wStopped = FALSE
  /\ timerArmed = FALSE
  /\ timerC = 0
  /\ task = [i \in TaskIds |-> "none"]
  /\ fires = 0
  /\ reloads = 0
  /\ lastLoad = "none"
  /\ cfg = NoConfig
  /\ boot = NotStarted
  /\ readers = {}
  /\ toggle = NoToggle
  /\ loaded = [i \in TaskIds |-> << >>]
  /\ resp = NoResponse
  /\ lbCall = [c \in CallerIds |-> IdleCaller]
  /\ shared = FALSE

SpecHandler == HandlerInit /\ [][HandlerNext]_vars

\* main, for every configuration of rules.file and rules.files and every
\* content of the rule files
BootInit ==
  /\ cfg \in [file : {""} \cup PathSet,
              pathList : { << >>, << "f1" >>, << "f2" >>, << "f1", "f2" >>,
                           << "f2", "f1" >> },
              autoReload : BOOLEAN]
  /\ boot = NotStarted
  /\ files \in [PathSet -> FileStates]
  /\ eRules = << >>
  /\ wRules = << >>
  /\ lastLoad = "none"
  /\ events = << >>
  /\ produced = 0
  /\ wStopped = FALSE
  /\ timerArmed = FALSE
  /\ timerC = 0
  /\ task = [i \in TaskIds |-> "none"]
  /\ fires = 0
  /\ reloads = 0
  /\ inRules = << >>
  /\ inContent = << >>
  /\ inStopped = FALSE
  /\ op = "none"
  /\ outContent = << >>
  /\ outErr = FALSE
  /\ eStopped = FALSE
  /\ proc = [p \in ProcIds |-> IdleCall]
  /\ targets = << "u1" >>
  /\ currentIndex = 0
  /\ returned = << >>
  /\ reqHeader = EmptyHeader
  /\ targetHeader = EmptyHeader
  /\ sentTo = "none"
  /\ req = [r \in ReqIds |-> NoRequest]
  /\ srv = "serving"
  /\ readers = {}
  /\ toggle = NoToggle
  /\ loaded = [i \in TaskIds |-> << >>]
  /\ resp = NoResponse
  /\ lbCall = [c \in CallerIds |-> IdleCaller]
  /\ shared = FALSE

SpecBoot == BootInit /\ [][BootNext]_vars

\* one request forwarded to the one target, and its upstream response passing
\* through Forwarder.CopyResponse
ResponseInit ==
  /\ targets = << UrlPool[1] >>
  /\ currentIndex = 0
  /\ returned = << >>
  /\ reqHeader = EmptyHeader
  /\ targetHeader = EmptyHeader
  /\ sentTo = "none"
  /\ inRules = << >>
  /\ inContent = << >>
  /\ inStopped = FALSE
  /\ op = "none"
  /\ outContent = << >>
  /\ outErr = FALSE
  /\ files = [p \in PathSet |-> MissingFile]
  /\ eRules = << >>
  /\ wRules = << >>
  /\ events = << >>
  /\ produced = 0
  /\ wStopped = FALSE
  /\ timerArmed = FALSE
  /\ timerC = 0
  /\ task = [i \in TaskIds |-> "none"]
  /\ fires = 0
  /\ reloads = 0
  /\ lastLoad = "none"
  /\ eStopped = FALSE
  /\ proc = [p \in ProcIds |-> IdleCall]
  /\ req = [r \in ReqIds |-> NoRequest]
  /\ srv = "serving"
  /\ cfg = NoConfig
  /\ boot = NotStarted
  /\ readers = {}
  /\ toggle = NoToggle
  /\ loaded = [i \in TaskIds |-> << >>]
  /\ resp = NoResponse
  /\ lbCall = [c \in CallerIds |-> IdleCaller]
  /\ shared = FALSE

SpecResponse == ResponseInit /\ [][ResponseNext]_vars

\* concurrent callers of GetNext on every target list
BalancerInit ==
  /\ targets \in TargetLists
  /\ currentIndex = 0
  /\ returned = << >>
  /\ reqHeader = EmptyHeader
  /\ targetHeader = EmptyHeader
  /\ sentTo = "none"
  /\ inRules = << >>
  /\ inContent = << >>
  /\ inStopped = FALSE
  /\ op = "none"
  /\ outContent = << >>
  /\ outErr = FALSE
  /\ files = [p \in PathSet |-> MissingFile]
  /\ eRules = << >>
  /\ wRules = << >>
  /\ events = << >>
  /\ produced = 0
  /\ wStopped = FALSE
  /\ timerArmed = FALSE
  /\ timerC = 0
  /\ task = [i \in TaskIds |-> "none"]
  /\ fires = 0
  /\ reloads = 0
  /\ lastLoad = "none"
  /\ eStopped = FALSE
  /\ proc = [p \in ProcIds |-> IdleCall]
  /\ req = [r \in ReqIds |-> NoRequest]
  /\ srv = "serving"
  /\ cfg = NoConfig
  /\ boot = NotStarted
  /\ readers = {}
  /\ toggle = NoToggle
  /\ loaded = [i \in TaskIds |-> << >>]
  /\ resp = NoResponse
  /\ lbCall = [c \in CallerIds |-> IdleCaller]
  /\ shared = FALSE

SpecBalancer == BalancerInit /\ [][BalancerNext]_vars

ShareInit ==
  /\ files = [p \in PathSet |->
                IF p = RulePaths[1]
                THEN [ok |-> TRUE, rules |-> << RuleA >>]
                ELSE [ok |-> TRUE, rules |-> << RuleB, RuleC >>]]
  /\ eRules = LoadRulesFromPaths(files, RulePaths).rules
  /\ wRules = LoadRulesFromPaths(files, RulePaths).rules
  /\ shared = FALSE
  /\ events = << >>
  /\ produced = 0
  /\ wStopped = FALSE
  /\ timerArmed = FALSE
  /\ timerC = 0
  /\ task = [i \in TaskIds |-> "none"]
  /\ fires = 0
  /\ reloads = 0
  /\ lastLoad = "none"
  /\ loaded = [i \in TaskIds |-> << >>]
  /\ inRules = << >>
  /\ inContent = << >>
  /\ inStopped = FALSE
  /\ op = "none"
  /\ outContent = << >>
  /\ outErr = FALSE
  /\ eStopped = FALSE
  /\ proc = [p \in ProcIds |-> IdleCall]
  /\ readers = {}
  /\ toggle = NoToggle
  /\ targets = << >>
  /\ currentIndex = 0
  /\ returned = << >>
  /\ reqHeader = EmptyHeader
  /\ targetHeader = EmptyHeader
  /\ sentTo = "none"
  /\ resp = NoResponse
  /\ lbCall = [c \in CallerIds |-> IdleCaller]
  /\ req = [r \in ReqIds |-> NoRequest]
  /\ srv = "serving"
  /\ cfg = NoConfig
  /\ boot = NotStarted

SpecShare == ShareInit /\ [][ShareNext]_vars

====
